---- MODULE Spec2Model ----
(***************************************************************************)
(* Membership and certificate record keeping (Clubs-Council-IIITH/members). *)
(* The store is the two MongoDB collections membersdb and certificatesdb;   *)
(* every GraphQL resolver of mutations.py / queries.py is one action.       *)
(***************************************************************************)
EXTENDS Integers, Sequences, FiniteSets

VARIABLES
    membersdb,       \* sequence of Member documents, in insertion order
    certificatesdb,  \* sequence of Certificate documents, in insertion order
    trail,           \* per certificate, the states written to it and by whom
    clock,           \* the wall clock, in milliseconds (datetime.now())
    last,            \* the last resolver call: its name, caller, arguments, outcome
    calls,           \* the number of member resolver calls made so far
    procs            \* the requests in flight (concurrent specifications only)

vars == <<membersdb, certificatesdb, trail, clock, last, calls, procs>>

(***************************************************************************)
(* Bounds of the model.                                                     *)
(***************************************************************************)
\* the calendar year the runs take place in (datetime.now().year)
CurrentYear == 2025
\* the clock runs from 0 to MaxClock
MaxClock == 1
\* milliseconds per minute of the (scaled down) clock: strftime keeps minutes
TicksPerMinute == 1
\* the longest role list a caller submits
MaxRoles == 2
\* the number of member resolver calls of a run
MaxCalls == 3
\* the number of certificates requested in a run
MaxCerts == 2
\* the number of requests in flight at once
MaxProcs == 2
\* the number of member resolver calls next to the certificate calls of a run
MaxSnapshotCalls == 1

(***************************************************************************)
(* Python values.                                                           *)
(***************************************************************************)
\* None, and a present optional value
None == <<>>
Some(x) == <<x>>

\* str(n) / $toString of a non-negative integer: its decimal digits
RECURSIVE toString(_)
toString(n) == IF n < 10 THEN <<n>> ELSE toString(n \div 10) \o <<n % 10>>

\* current_time.strftime("%d-%m-%Y %I:%M %p IST"): the clock cut to the minute
time_str(t) == Some(t \div TicksPerMinute)

\* str.lower() on the user ids of the model
lower(s) == IF s = "U1" THEN "u1" ELSE s

\* a sequence without its i-th element
RemoveAt(s, i) == SubSeq(s, 1, i - 1) \o SubSeq(s, i + 1, Len(s))

(***************************************************************************)
(* Callers (info.context.user) and the inputs they send.                    *)
(***************************************************************************)
NoUser == [role |-> "none", uid |-> "none"]
CC == [role |-> "cc", uid |-> "cc1"]
Club1 == [role |-> "club", uid |-> "c1"]
Club2 == [role |-> "club", uid |-> "c2"]
SLO == [role |-> "slo", uid |-> "slo1"]
Student == [role |-> "public", uid |-> "u1"]
Users == {NoUser, CC, Club1, Club2, SLO, Student}

Cids == {"c1"}
\* "u9" is unknown to the Users service
UidInputs == {"u1", "u9"}
KnownUids == {"u1"}

\* RolesInput: name, start_year, end_year
\* an ongoing role, a role of another name ending after or before its
\* start, and a role starting next year with an end before or after now
RoleInputs ==
    {[name |-> "Coordinator", start_year |-> CurrentYear, end_year |-> None],
     [name |-> "Member", start_year |-> CurrentYear, end_year |-> Some(CurrentYear + 1)],
     [name |-> "Member", start_year |-> CurrentYear, end_year |-> Some(CurrentYear - 1)]}
    \cup [name : {"Coordinator"},
          start_year : {CurrentYear + 1},
          end_year : {Some(CurrentYear - 1), Some(CurrentYear + 1)}]

RECURSIVE SeqsUpTo(_, _)
SeqsUpTo(S, n) ==
    IF n = 0 THEN {<<>>}
    ELSE LET shorter == SeqsUpTo(S, n - 1)
         IN shorter \cup {Append(s, x) : s \in {t \in shorter : Len(t) = n - 1}, x \in S}

RoleLists == SeqsUpTo(RoleInputs, MaxRoles)


(***************************************************************************)
(* models.py: Roles and Member.                                             *)
(***************************************************************************)
StartYearMin == 2010
StartYearMax == 2050
EndYearMin == 2010
EndYearMax == 2051

\* Field(..., ge=2010, le=2050) and Field(None, gt=2010, le=2051)
fields_valid(r) ==
    /\ r.start_year >= StartYearMin
    /\ r.start_year <= StartYearMax
    /\ r.end_year # None => (r.end_year[1] > EndYearMin /\ r.end_year[1] <= EndYearMax)

\* Roles.check_end_year: an end before the start becomes None
check_end_year(start_year, end_year) ==
    IF end_year # None /\ end_year[1] < start_year THEN None ELSE end_year

\* Roles.check_status: approved and rejected together do not validate
check_status(approved, rejected) == ~(approved /\ rejected)

\* Roles(name=, start_year=, end_year=): a RolesInput turned into the model
Roles(r) ==
    [rid |-> None,
     name |-> r.name,
     start_year |-> r.start_year,
     end_year |-> check_end_year(r.start_year, r.end_year),
     approved |-> FALSE,
     approval_time |-> None,
     rejected |-> FALSE,
     rejection_time |-> None,
     deleted |-> FALSE]

\* Member.transform_uid
transform_uid(uid) == lower(uid)

\* Member.model_validate on a stored document: whether it validates
model_validates(doc) ==
    \A i \in 1..Len(doc.roles) :
        /\ fields_valid(doc.roles[i])
        /\ check_status(doc.roles[i].approved, doc.roles[i].rejected)

\* Member.model_validate on a stored document: the validated roles
model_validate(doc) ==
    [doc EXCEPT !.roles =
        [i \in 1..Len(doc.roles) |->
            [doc.roles[i] EXCEPT !.end_year =
                check_end_year(doc.roles[i].start_year, doc.roles[i].end_year)]]]

(***************************************************************************)
(* db.py: the members collection and its unique_members index.              *)
(***************************************************************************)
\* the documents of db matching {"cid": cid, "uid": uid}
Matches(db, cid, uid) == {i \in 1..Len(db) : db[i].cid = cid /\ db[i].uid = uid}

\* find_one: the index of the first matching document, 0 for None
find_one(db, cid, uid) ==
    IF Matches(db, cid, uid) = {} THEN 0
    ELSE CHOOSE i \in Matches(db, cid, uid) : \A j \in Matches(db, cid, uid) : i <= j

\* a collection without the unique_members index refuses no insert
DuplicateKey_without_index(db, doc) == FALSE

\* the unique_members index on (cid, uid): whether insert_one is refused
DuplicateKey(db, doc) == Matches(db, doc.cid, doc.uid) # {}

\* insert_one on a collection that accepted the document
insert_one(db, doc) == Append(db, doc)

\* update_one {"$set": {"roles": roles}} on the first matching document
update_roles(db, cid, uid, roles) ==
    LET i == find_one(db, cid, uid)
    IN IF i = 0 THEN db ELSE [db EXCEPT ![i].roles = roles]

\* delete_one on the first matching document
delete_one(db, cid, uid) ==
    LET i == find_one(db, cid, uid)
    IN IF i = 0 THEN db ELSE RemoveAt(db, i)

(***************************************************************************)
(* utils.py                                                                 *)
(***************************************************************************)
\* unique_roles_id with the index left out of the sum
unique_roles_id_without_index(db, uid, cid, t) ==
    LET i == find_one(db, cid, uid)
    IN IF i = 0 THEN db
       ELSE [db EXCEPT ![i].roles =
                [k \in 1..Len(db[i].roles) |->
                    [db[i].roles[k] EXCEPT !.rid = toString(t)]]]

\* unique_roles_id: the pipeline sets rid = toString(toLong(now) + index)
\* on every role of the document
unique_roles_id(db, uid, cid, t) ==
    LET i == find_one(db, cid, uid)
    IN IF i = 0 THEN db
       ELSE [db EXCEPT ![i].roles =
                [k \in 1..Len(db[i].roles) |->
                    [db[i].roles[k] EXCEPT !.rid = toString(t + (k - 1))]]]

\* getUser: the profile the Users service returns, None for an unknown uid
getUser(uid) == IF uid \in KnownUids THEN Some(uid) ELSE None

\* non_deleted_members: the member returned, with its non-deleted roles
non_deleted_members(db, cid, uid) ==
    LET i == find_one(db, cid, uid)
    IN IF i = 0 THEN <<>>
       ELSE <<model_validate([db[i] EXCEPT
                !.roles = SelectSeq(db[i].roles, LAMBDA r : ~r.deleted)])>>

(***************************************************************************)
(* mutations.py: the member resolvers.                                      *)
(***************************************************************************)
\* last before any call
NoCall ==
    [op |-> "Init", user |-> NoUser, cid |-> "", uid |-> "", roles |-> <<>>,
     rid |-> None, status |-> "ok", before |-> <<>>, time |-> 0,
     number |-> None, key |-> "", certs |-> <<>>, result |-> <<>>]

\* what a member resolver call leaves in last
Call(op, user, cid, uid, roles, rid, status, before) ==
    [op |-> op, user |-> user, cid |-> cid, uid |-> uid, roles |-> roles,
     rid |-> rid, status |-> status, before |-> before, time |-> clock,
     number |-> None, key |-> "", certs |-> <<>>, result |-> <<>>]

\* a call that returned the members of result
Returning(call, result) == [call EXCEPT !.result = result]

\* a call that raised: the store is as before, nothing is returned
Raised(op, user, cid, uid, status) ==
    Call(op, user, cid, uid, <<>>, None, status, membersdb)

\* the check with the comparison of cid and the caller's uid left out
not_club_nor_cc_any_club(user, cid) ==
    user.role # "club" /\ user.role # "cc"

\* (member_input["cid"] != uid or user["role"] != "club") and user["role"] != "cc"
not_club_nor_cc(user, cid) ==
    (cid # user.uid \/ user.role # "club") /\ user.role # "cc"

\* i["end_year"] and i["start_year"] > i["end_year"]
start_after_end(r) ==
    r.end_year # None /\ r.end_year[1] # 0 /\ r.start_year > r.end_year[1]

\* the clamp assigning the current year to end_year instead of start_year
clamp_end_instead_of_start(r, year) ==
    IF r.start_year > year
    THEN [r EXCEPT !.end_year = Some(year)]
    ELSE r

\* clamp_start with the assignment end_year = None left out
clamp_start_keeping_end(r, year) ==
    IF r.start_year > year
    THEN [r EXCEPT !.start_year = year]
    ELSE r

\* a start year after the current year becomes the current year, with no end
clamp_start(r, year) ==
    IF r.start_year > year
    THEN [r EXCEPT !.start_year = year, !.end_year = None]
    ELSE r

\* createMember: cc's roles are stored approved
approve_if_cc(r, user, t) ==
    IF user.role = "cc"
    THEN [r EXCEPT !.approved = TRUE, !.approval_time = time_str(t)]
    ELSE r

\* createMember without the check of len(member_input["roles"])
createMember_status_allowing_empty(db, user, cid, uidIn, rolesIn) ==
    IF user = NoUser THEN "Not Authenticated"
    ELSE IF \E i \in 1..Len(rolesIn) : ~fields_valid(rolesIn[i]) THEN "ValidationError"
    ELSE IF not_club_nor_cc(user, cid) THEN "Not Authenticated to access this API"
    ELSE IF find_one(db, cid, transform_uid(uidIn)) # 0
        THEN "A record with same uid and cid already exists"
    ELSE IF getUser(transform_uid(uidIn)) = None THEN "Invalid User ID"
    ELSE IF \E i \in 1..Len(rolesIn) : start_after_end(Roles(rolesIn[i]))
        THEN "Start year cannot be greater than end year"
    ELSE "ok"

\* createMember: the exception it raises, "ok" when it raises none
createMember_status(db, user, cid, uidIn, rolesIn) ==
    IF user = NoUser THEN "Not Authenticated"
    ELSE IF \E i \in 1..Len(rolesIn) : ~fields_valid(rolesIn[i]) THEN "ValidationError"
    ELSE IF not_club_nor_cc(user, cid) THEN "Not Authenticated to access this API"
    ELSE IF find_one(db, cid, transform_uid(uidIn)) # 0
        THEN "A record with same uid and cid already exists"
    ELSE IF getUser(transform_uid(uidIn)) = None THEN "Invalid User ID"
    ELSE IF Len(rolesIn) = 0 THEN "Roles cannot be empty"
    ELSE IF \E i \in 1..Len(rolesIn) : start_after_end(Roles(rolesIn[i]))
        THEN "Start year cannot be greater than end year"
    ELSE "ok"

\* createMember: the roles of the inserted document
createMember_roles(user, rolesIn, t) ==
    [i \in 1..Len(rolesIn) |->
        approve_if_cc(clamp_start(Roles(rolesIn[i]), CurrentYear), user, t)]

createMember(user, cid, uidIn, rolesIn) ==
    LET uid == transform_uid(uidIn)
        status == createMember_status(membersdb, user, cid, uidIn, rolesIn)
        doc == [cid |-> cid, uid |-> uid,
                roles |-> createMember_roles(user, rolesIn, clock)]
    IN /\ IF status # "ok"
          THEN /\ last' = Raised("createMember", user, cid, uid, status)
               /\ UNCHANGED membersdb
          ELSE IF DuplicateKey(membersdb, doc)
          THEN /\ last' = Raised("createMember", user, cid, uid, "DuplicateKeyError")
               /\ UNCHANGED membersdb
          ELSE /\ membersdb' = unique_roles_id(insert_one(membersdb, doc), uid, cid, clock)
               /\ last' = Returning(
                    Call("createMember", user, cid, uid, rolesIn, None, "ok", membersdb),
                    <<model_validate(membersdb'[find_one(membersdb', cid, uid)])>>)
       /\ UNCHANGED <<certificatesdb, trail, clock, procs>>
       /\ calls' = calls + 1

\* editMember: the exception it raises, "ok" when it raises none
editMember_status(db, user, cid, uidIn, rolesIn) ==
    IF user = NoUser THEN "Not Authenticated"
    ELSE IF \E i \in 1..Len(rolesIn) : ~fields_valid(rolesIn[i]) THEN "ValidationError"
    ELSE IF not_club_nor_cc(user, cid) THEN "Not Authenticated to access this API"
    ELSE IF Len(rolesIn) = 0 THEN "Roles cannot be empty"
    ELSE IF \E i \in 1..Len(rolesIn) : start_after_end(Roles(rolesIn[i]))
        THEN "Start year cannot be greater than end year"
    ELSE IF find_one(db, cid, transform_uid(uidIn)) = 0 THEN "No such Record!"
    ELSE IF ~model_validates(db[find_one(db, cid, transform_uid(uidIn))])
        THEN "ValidationError"
    ELSE "ok"

\* editMember: i.start_year == ... and i.end_year == ... and i.name == ...
same_role(i, role_new) ==
    /\ i.start_year = role_new.start_year
    /\ i.end_year = role_new.end_year
    /\ i.name = role_new.name

\* editMember: for i in member_roles ... break: the index of the first stored
\* role that is the same role, 0 when there is none
first_same_role(member_roles, role_new) ==
    IF \E i \in 1..Len(member_roles) : same_role(member_roles[i], role_new)
    THEN CHOOSE i \in 1..Len(member_roles) :
            /\ same_role(member_roles[i], role_new)
            /\ \A j \in 1..(i - 1) : ~same_role(member_roles[j], role_new)
    ELSE 0

\* keep_status with the assignment of approved left out
keep_status_without_approved(role_new, i) ==
    [role_new EXCEPT !.rejected = i.rejected,
                     !.deleted = i.deleted]

\* editMember: the stored role's status kept on a resubmitted role
keep_status(role_new, i) ==
    [role_new EXCEPT !.approved = i.approved,
                     !.rejected = i.rejected,
                     !.deleted = i.deleted]

\* a new role approved for a club caller as for cc
new_status_approving_clubs(role_new, user, t) ==
    [role_new EXCEPT !.approved = (user.role \in {"cc", "club"}),
                     !.approval_time = IF user.role \in {"cc", "club"}
                                       THEN time_str(t) ELSE None,
                     !.rejection_time = None]

\* editMember: the status of a role that matches no stored role
new_status(role_new, user, t) ==
    [role_new EXCEPT !.approved = (user.role = "cc"),
                     !.approval_time = IF user.role = "cc" THEN time_str(t) ELSE None,
                     !.rejection_time = None]

\* editMember's loop without member_roles.remove(i)
RECURSIVE editMember_roles_matching_twice(_, _, _, _)
editMember_roles_matching_twice(rolesIn, member_roles, user, t) ==
    IF rolesIn = <<>> THEN <<>>
    ELSE LET role_new == clamp_start(Head(rolesIn), CurrentYear)
             k == first_same_role(member_roles, role_new)
         IN IF k # 0
            THEN <<keep_status(role_new, member_roles[k])>>
                 \o editMember_roles_matching_twice(Tail(rolesIn), member_roles, user, t)
            ELSE <<new_status(role_new, user, t)>>
                 \o editMember_roles_matching_twice(Tail(rolesIn), member_roles, user, t)

\* editMember: the loop over the submitted roles; member_roles is what is
\* left of the stored roles
RECURSIVE editMember_roles(_, _, _, _)
editMember_roles(rolesIn, member_roles, user, t) ==
    IF rolesIn = <<>> THEN <<>>
    ELSE LET role_new == clamp_start(Head(rolesIn), CurrentYear)
             k == first_same_role(member_roles, role_new)
         IN IF k # 0
            THEN <<keep_status(role_new, member_roles[k])>>
                 \o editMember_roles(Tail(rolesIn), RemoveAt(member_roles, k), user, t)
            ELSE <<new_status(role_new, user, t)>>
                 \o editMember_roles(Tail(rolesIn), member_roles, user, t)

editMember(user, cid, uidIn, rolesIn) ==
    LET uid == transform_uid(uidIn)
        status == editMember_status(membersdb, user, cid, uidIn, rolesIn)
        member_ref == model_validate(membersdb[find_one(membersdb, cid, uid)])
        roles == editMember_roles([i \in 1..Len(rolesIn) |-> Roles(rolesIn[i])],
                                  member_ref.roles, user, clock)
    IN /\ IF status # "ok"
          THEN /\ last' = Raised("editMember", user, cid, uid, status)
               /\ UNCHANGED membersdb
          ELSE /\ membersdb' =
                    unique_roles_id(update_roles(membersdb, cid, uid, roles), uid, cid, clock)
               /\ last' = Returning(
                    Call("editMember", user, cid, uid, rolesIn, None, "ok", membersdb),
                    non_deleted_members(membersdb', cid, uid))
       /\ UNCHANGED <<certificatesdb, trail, clock, procs>>
       /\ calls' = calls + 1

\* deleteMember raising the authorization error for a missing record
deleteMember_status_not_found_as_unauthorised(db, user, cid, uid) ==
    IF user = NoUser THEN "Not Authenticated"
    ELSE IF not_club_nor_cc(user, cid) \/ find_one(db, cid, uid) = 0
        THEN "Not Authenticated to access this API"
    ELSE "ok"

\* deleteMember: the exception it raises, "ok" when it raises none
deleteMember_status(db, user, cid, uid) ==
    IF user = NoUser THEN "Not Authenticated"
    ELSE IF not_club_nor_cc(user, cid) THEN "Not Authenticated to access this API"
    ELSE IF find_one(db, cid, uid) = 0 THEN "No such Record"
    ELSE "ok"

\* deleteMember marking every role once the rid is among them
mark_deleted_every_role(roles, rid) ==
    [k \in 1..Len(roles) |->
        IF \E m \in 1..Len(roles) : roles[m].rid = rid
        THEN [roles[k] EXCEPT !.deleted = TRUE] ELSE roles[k]]

\* deleteMember: the role with the given rid is marked deleted
mark_deleted(roles, rid) ==
    [k \in 1..Len(roles) |->
        IF roles[k].rid = rid THEN [roles[k] EXCEPT !.deleted = TRUE] ELSE roles[k]]

deleteMember(user, cid, uid, rid) ==
    LET status == deleteMember_status(membersdb, user, cid, uid)
        existing_data == membersdb[find_one(membersdb, cid, uid)]
    IN /\ IF status # "ok"
          THEN /\ last' = Raised("deleteMember", user, cid, uid, status)
               /\ UNCHANGED membersdb
          ELSE /\ membersdb' =
                    IF rid = None
                    THEN delete_one(membersdb, cid, uid)
                    ELSE unique_roles_id(
                            update_roles(membersdb, cid, uid,
                                         mark_deleted(existing_data.roles, rid)),
                            uid, cid, clock)
               /\ last' = Returning(
                    Call("deleteMember", user, cid, uid, <<>>, rid, "ok", membersdb),
                    IF rid = None THEN <<model_validate(existing_data)>>
                    ELSE non_deleted_members(membersdb', cid, uid))
       /\ UNCHANGED <<certificatesdb, trail, clock, procs>>
       /\ calls' = calls + 1

\* approveMember, rejectMember open to the club that owns the Membership
ccOnly_status_or_owning_club(db, user, cid, uid) ==
    IF user = NoUser THEN "Not Authenticated"
    ELSE IF not_club_nor_cc(user, cid) THEN "Not Authenticated to access this API"
    ELSE IF find_one(db, cid, uid) = 0 THEN "No such Record"
    ELSE "ok"

\* approveMember, rejectMember: the exception raised, "ok" when none is
ccOnly_status(db, user, cid, uid) ==
    IF user = NoUser THEN "Not Authenticated"
    ELSE IF user.role # "cc" THEN "Not Authenticated to access this API"
    ELSE IF find_one(db, cid, uid) = 0 THEN "No such Record"
    ELSE "ok"

\* approve_roles with the assignments to rejected and rejection_time left out
approve_roles_keeping_rejected(roles, rid, t) ==
    [k \in 1..Len(roles) |->
        IF rid = None \/ roles[k].rid = rid
        THEN [roles[k] EXCEPT !.approved = TRUE,
                              !.approval_time = time_str(t)]
        ELSE roles[k]]

\* approveMember: the loop over the stored roles
approve_roles(roles, rid, t) ==
    [k \in 1..Len(roles) |->
        IF rid = None \/ roles[k].rid = rid
        THEN [roles[k] EXCEPT !.approved = TRUE,
                              !.approval_time = time_str(t),
                              !.rejected = FALSE,
                              !.rejection_time = None]
        ELSE roles[k]]

approveMember(user, cid, uid, rid) ==
    LET status == ccOnly_status(membersdb, user, cid, uid)
        existing_data == membersdb[find_one(membersdb, cid, uid)]
    IN /\ IF status # "ok"
          THEN /\ last' = Raised("approveMember", user, cid, uid, status)
               /\ UNCHANGED membersdb
          ELSE /\ membersdb' =
                    unique_roles_id(
                        update_roles(membersdb, cid, uid,
                                     approve_roles(existing_data.roles, rid, clock)),
                        uid, cid, clock)
               /\ last' = Returning(
                    Call("approveMember", user, cid, uid, <<>>, rid, "ok", membersdb),
                    non_deleted_members(membersdb', cid, uid))
       /\ UNCHANGED <<certificatesdb, trail, clock, procs>>
       /\ calls' = calls + 1

\* rejectMember that keeps the roles it rejects only
reject_roles_dropping_others(roles, rid, t) ==
    LET picked == SelectSeq(roles, LAMBDA i : rid = None \/ i.rid = rid)
    IN [k \in 1..Len(picked) |->
            [picked[k] EXCEPT !.approved = FALSE,
                              !.approval_time = None,
                              !.rejection_time = time_str(t),
                              !.rejected = TRUE]]

\* rejectMember: the loop over the stored roles
reject_roles(roles, rid, t) ==
    [k \in 1..Len(roles) |->
        IF rid = None \/ roles[k].rid = rid
        THEN [roles[k] EXCEPT !.approved = FALSE,
                              !.approval_time = None,
                              !.rejection_time = time_str(t),
                              !.rejected = TRUE]
        ELSE roles[k]]

rejectMember(user, cid, uid, rid) ==
    LET status == ccOnly_status(membersdb, user, cid, uid)
        existing_data == membersdb[find_one(membersdb, cid, uid)]
    IN /\ IF status # "ok"
          THEN /\ last' = Raised("rejectMember", user, cid, uid, status)
               /\ UNCHANGED membersdb
          ELSE /\ membersdb' =
                    unique_roles_id(
                        update_roles(membersdb, cid, uid,
                                     reject_roles(existing_data.roles, rid, clock)),
                        uid, cid, clock)
               /\ last' = Returning(
                    Call("rejectMember", user, cid, uid, <<>>, rid, "ok", membersdb),
                    non_deleted_members(membersdb', cid, uid))
       /\ UNCHANGED <<certificatesdb, trail, clock, procs>>
       /\ calls' = calls + 1

\* time passes
Tick ==
    /\ clock < MaxClock
    /\ clock' = clock + 1
    /\ UNCHANGED <<membersdb, certificatesdb, trail, last, calls, procs>>

(***************************************************************************)
(* The member resolvers, one request at a time.                             *)
(***************************************************************************)
\* the role lists worth sending: a call that raises before it looks at its
\* roles does the same with every list
RoleListsFor(status) ==
    IF status \in {"ok", "Roles cannot be empty"} THEN RoleLists ELSE {<<>>}

\* the rid argument of SimpleMemberInput: none, a stored one, one never assigned
RidInputs(db, cid, uid) ==
    {None, toString(MaxClock + MaxRoles)}
    \cup (IF find_one(db, cid, uid) = 0 THEN {}
          ELSE {db[find_one(db, cid, uid)].roles[k].rid :
                    k \in 1..Len(db[find_one(db, cid, uid)].roles)})

RidInputsFor(status, db, cid, uid) ==
    IF status = "ok" THEN RidInputs(db, cid, uid) ELSE {None}

DoCreateMember ==
    /\ calls < MaxCalls
    /\ \E user \in Users, cid \in Cids, uid \in UidInputs :
        \E roles \in RoleListsFor(createMember_status(membersdb, user, cid, uid, <<>>)) :
            createMember(user, cid, uid, roles)

DoEditMember ==
    /\ calls < MaxCalls
    /\ \E user \in Users, cid \in Cids, uid \in UidInputs :
        \E roles \in RoleListsFor(editMember_status(membersdb, user, cid, uid, <<>>)) :
            editMember(user, cid, uid, roles)

DoDeleteMember ==
    /\ calls < MaxCalls
    /\ \E user \in Users, cid \in Cids, uid \in UidInputs :
        \E rid \in RidInputsFor(deleteMember_status(membersdb, user, cid, uid),
                                membersdb, cid, uid) :
            deleteMember(user, cid, uid, rid)

DoApproveMember ==
    /\ calls < MaxCalls
    /\ \E user \in Users, cid \in Cids, uid \in UidInputs :
        \E rid \in RidInputsFor(ccOnly_status(membersdb, user, cid, uid),
                                membersdb, cid, uid) :
            approveMember(user, cid, uid, rid)

DoRejectMember ==
    /\ calls < MaxCalls
    /\ \E user \in Users, cid \in Cids, uid \in UidInputs :
        \E rid \in RidInputsFor(ccOnly_status(membersdb, user, cid, uid),
                                membersdb, cid, uid) :
            rejectMember(user, cid, uid, rid)

Init ==
    /\ membersdb = <<>>
    /\ certificatesdb = <<>>
    /\ trail = <<>>
    /\ clock = 0
    /\ calls = 0
    /\ procs = <<>>
    /\ last = NoCall

Next ==
    \/ DoCreateMember
    \/ DoEditMember
    \/ DoDeleteMember
    \/ DoApproveMember
    \/ DoRejectMember
    \/ Tick

Spec == Init /\ [][Next]_vars

(***************************************************************************)
(* Certificates: the Certificate model and the certificate resolvers.       *)
(***************************************************************************)
\* CertificateStates
pending_cc == "pending_cc"
pending_slo == "pending_slo"
approved == "approved"
rejected == "rejected"

\* generate_key: the keys it may return
Keys == {"k1", "k2"}

\* Certificate(user_id=, certificate_number=, certificate_data=, key=): a new
\* certificate waits for cc and carries no approval stamp
Certificate(user_id, certificate_number, certificate_data, key) ==
    [user_id |-> user_id,
     certificate_number |-> certificate_number,
     certificate_data |-> certificate_data,
     key |-> key,
     state |-> pending_cc,
     cc_approved_at |-> None,
     cc_approver |-> None,
     slo_approved_at |-> None,
     slo_approver |-> None]

\* f"{str(year)[2:]}{str(next_year)[2:]}"
year_code(year) == <<year % 100, (year + 1) % 100>>

\* f"SLC/{year_code}/{count:04d}"
certificate_number_of(code, count) == <<"SLC", code, count>>

\* a count of the certificates of the year that are still pending
count_documents_pending_only(db, code) ==
    Cardinality({i \in 1..Len(db) :
        /\ db[i].certificate_number[1] = "SLC" /\ db[i].certificate_number[2] = code
        /\ db[i].state \in {"pending_cc", "pending_slo"}})

\* count_documents({"certificate_number": {"$regex": f"^SLC/{year_code}/"}})
count_documents(db, code) ==
    Cardinality({i \in 1..Len(db) :
        db[i].certificate_number[1] = "SLC" /\ db[i].certificate_number[2] = code})

\* memberRolesHelper that drops the deleted roles only
visible_roles_unfiltered(roles, role) ==
    SelectSeq(roles, LAMBDA i : ~i.deleted)

\* queries.py memberRolesHelper: the roles of one document the caller may see
visible_roles(roles, role) ==
    SelectSeq(roles, LAMBDA i : ~i.deleted /\ (role # "cc" => i.approved))

\* queries.py memberRolesHelper: the members of uid with the roles the
\* caller may see, members left with no role dropped
RECURSIVE memberRolesHelper(_, _, _)
memberRolesHelper(db, uid, user) ==
    IF db = <<>> THEN <<>>
    ELSE LET result == Head(db)
             role == IF user = NoUser THEN "public" ELSE user.role
             roles_result == visible_roles(result.roles, role)
         IN (IF result.uid = uid /\ Len(roles_result) > 0
             THEN <<model_validate([result EXCEPT !.roles = roles_result])>>
             ELSE <<>>)
            \o memberRolesHelper(Tail(db), uid, user)

\* requestCertificate: the memberships written into certificate_data
RECURSIVE memberships_of(_)
memberships_of(user_memberships) ==
    IF user_memberships = <<>> THEN <<>>
    ELSE LET m == Head(user_memberships)
         IN [k \in 1..Len(m.roles) |->
                [startYear |-> m.roles[k].start_year,
                 endYear |-> m.roles[k].end_year,
                 name |-> m.roles[k].name,
                 cid |-> m.cid]]
            \o memberships_of(Tail(user_memberships))

\* the index of the first certificate with the number, 0 for None
find_certificate(db, certificate_number) ==
    IF \E i \in 1..Len(db) : db[i].certificate_number = certificate_number
    THEN CHOOSE i \in 1..Len(db) :
            /\ db[i].certificate_number = certificate_number
            /\ \A j \in 1..(i - 1) : db[j].certificate_number # certificate_number
    ELSE 0

\* an update that also writes certificate_data again from the members stored
\* at the time of the update
update_certificate_refreshing_data(db, certificate_number, updation) ==
    LET i == find_certificate(db, certificate_number)
    IN IF i = 0 THEN db
       ELSE [db EXCEPT ![i] =
                [f \in DOMAIN db[i] |->
                    IF f \in DOMAIN updation THEN updation[f]
                    ELSE IF f = "certificate_data"
                    THEN [user_id |-> db[i].user_id,
                          memberships |-> memberships_of(
                                memberRolesHelper(membersdb, db[i].user_id,
                                    [role |-> "public", uid |-> db[i].user_id]))]
                    ELSE db[i][f]]]

\* certificatesdb.update_one({"certificate_number": ...}, {"$set": updation})
update_certificate(db, certificate_number, updation) ==
    LET i == find_certificate(db, certificate_number)
    IN IF i = 0 THEN db
       ELSE [db EXCEPT ![i] =
                [f \in DOMAIN db[i] |->
                    IF f \in DOMAIN updation THEN updation[f] ELSE db[i][f]]]

\* what a certificate resolver call leaves in last
CertCall(op, user, number, key, status) ==
    [NoCall EXCEPT !.op = op, !.user = user, !.number = number, !.key = key,
                   !.status = status, !.certs = certificatesdb, !.time = clock]

\* requestCertificate: the exception it raises, "ok" when it raises none
requestCertificate_status(db, user) ==
    IF user = NoUser THEN "Not Authenticated"
    ELSE IF memberRolesHelper(db, user.uid, user) = <<>> THEN "No Memberships Found"
    ELSE "ok"

\* requestCertificate: the certificate it inserts
new_certificate(members, certs, user, key) ==
    Certificate(user.uid,
                certificate_number_of(year_code(CurrentYear),
                                      count_documents(certs, year_code(CurrentYear)) + 1),
                [user_id |-> user.uid,
                 memberships |-> memberships_of(memberRolesHelper(members, user.uid, user))],
                key)

requestCertificate(user, key) ==
    LET status == requestCertificate_status(membersdb, user)
        cert == new_certificate(membersdb, certificatesdb, user, key)
    IN /\ IF status # "ok"
          THEN /\ last' = CertCall("requestCertificate", user, None, "", status)
               /\ UNCHANGED <<certificatesdb, trail>>
          ELSE /\ certificatesdb' = Append(certificatesdb, cert)
               /\ trail' = Append(trail, <<[state |-> cert.state, by |-> user]>>)
               /\ last' = CertCall("requestCertificate", user, cert.certificate_number,
                                   key, "ok")
       /\ UNCHANGED <<membersdb, clock, calls, procs>>

\* user is None or user["role"] not in ["cc", "slo"]
not_cc_nor_slo(user) == user = NoUser \/ user.role \notin {"cc", "slo"}

\* approveCertificate where the approval of cc is the last stage
approve_updation_skipping_slo(current_status, user, t) ==
    IF current_status = pending_cc /\ user.role = "cc"
    THEN [state |-> approved,
          cc_approved_at |-> Some(t),
          cc_approver |-> Some(user.uid)]
    ELSE IF current_status = pending_slo /\ user.role = "slo"
    THEN [state |-> approved,
          slo_approved_at |-> Some(t),
          slo_approver |-> Some(user.uid)]
    ELSE [error |-> "Can not access certificate"]

\* approveCertificate: the $set it makes for the state it read, or the
\* exception it raises
approve_updation(current_status, user, t) ==
    IF current_status = pending_cc /\ user.role = "cc"
    THEN [state |-> pending_slo,
          cc_approved_at |-> Some(t),
          cc_approver |-> Some(user.uid)]
    ELSE IF current_status = pending_slo /\ user.role = "slo"
    THEN [state |-> approved,
          slo_approved_at |-> Some(t),
          slo_approver |-> Some(user.uid)]
    ELSE [error |-> "Can not access certificate"]

\* rejectCertificate that does not look at the state it read
reject_updation_ignoring_state(current_status, user) ==
    IF user.role = "cc" \/ user.role = "slo"
    THEN [state |-> rejected]
    ELSE [error |-> "Can not reject certificate"]

\* rejectCertificate: the $set it makes for the state it read, or the
\* exception it raises
reject_updation(current_status, user) ==
    IF current_status = pending_cc /\ user.role = "cc"
    THEN [state |-> rejected]
    ELSE IF current_status = pending_slo /\ user.role = "slo"
    THEN [state |-> rejected]
    ELSE [error |-> "Can not reject certificate"]

\* approveCertificate or rejectCertificate, from the request to the write
decideCertificate(op, user, certificate_number, not_found, updation) ==
    LET i == find_certificate(certificatesdb, certificate_number)
    IN /\ IF not_cc_nor_slo(user)
          THEN /\ last' = CertCall(op, user, certificate_number, "",
                                   "Not Authenticated or Unauthorized")
               /\ UNCHANGED <<certificatesdb, trail>>
          ELSE IF i = 0
          THEN /\ last' = CertCall(op, user, certificate_number, "", not_found)
               /\ UNCHANGED <<certificatesdb, trail>>
          ELSE IF "error" \in DOMAIN updation
          THEN /\ last' = CertCall(op, user, certificate_number, "", updation.error)
               /\ UNCHANGED <<certificatesdb, trail>>
          ELSE /\ certificatesdb' =
                    update_certificate(certificatesdb, certificate_number, updation)
               /\ trail' = [trail EXCEPT ![i] =
                                Append(@, [state |-> updation.state, by |-> user])]
               /\ last' = CertCall(op, user, certificate_number, "", "ok")
       /\ UNCHANGED <<membersdb, clock, calls, procs>>

\* the state find_one read, "" when it found no certificate
state_read(db, certificate_number) ==
    IF find_certificate(db, certificate_number) = 0 THEN ""
    ELSE db[find_certificate(db, certificate_number)].state

approveCertificate(user, certificate_number) ==
    decideCertificate("approveCertificate", user, certificate_number,
                      "Can not access certificate",
                      approve_updation(state_read(certificatesdb, certificate_number),
                                       user, clock))

rejectCertificate(user, certificate_number) ==
    decideCertificate("rejectCertificate", user, certificate_number,
                      "No such certificate found",
                      reject_updation(state_read(certificatesdb, certificate_number), user))

\* verifyCertificate comparing the key before it looks at the rejected state
verifyCertificate_status_key_first(db, certificate_number, key) ==
    LET i == find_certificate(db, certificate_number)
    IN IF i = 0 THEN "Certificate not found"
       ELSE IF db[i].key # key THEN "Wrong key provided"
       ELSE IF db[i].state = rejected THEN "Certificate has been rejected"
       ELSE IF db[i].state # approved THEN "Certificate approval is pending"
       ELSE "ok"

\* verifyCertificate that does not compare the key
verifyCertificate_status_without_key(db, certificate_number, key) ==
    LET i == find_certificate(db, certificate_number)
    IN IF i = 0 THEN "Certificate not found"
       ELSE IF db[i].state = rejected THEN "Certificate has been rejected"
       ELSE IF db[i].state # approved THEN "Certificate approval is pending"
       ELSE "ok"

\* queries.py verifyCertificate: the exception it raises, "ok" when it
\* returns the certificate
verifyCertificate_status(db, certificate_number, key) ==
    LET i == find_certificate(db, certificate_number)
    IN IF i = 0 THEN "Certificate not found"
       ELSE IF db[i].state = rejected THEN "Certificate has been rejected"
       ELSE IF db[i].key # key THEN "Wrong key provided"
       ELSE IF db[i].state # approved THEN "Certificate approval is pending"
       ELSE "ok"

verifyCertificate(certificate_number, key) ==
    /\ last' = CertCall("verifyCertificate", NoUser, certificate_number, key,
                        verifyCertificate_status(certificatesdb, certificate_number, key))
    /\ UNCHANGED <<membersdb, certificatesdb, trail, clock, calls, procs>>

(***************************************************************************)
(* The certificate resolvers, one request at a time, for a user who is an   *)
(* approved member.                                                         *)
(***************************************************************************)
\* the certificate numbers a caller sends: the stored ones and one that is
\* never given out
NumberInputs(db) ==
    {db[i].certificate_number : i \in 1..Len(db)}
    \cup {certificate_number_of(year_code(CurrentYear), 0)}

DoRequestCertificate ==
    /\ Len(certificatesdb) < MaxCerts
    /\ \E user \in Users, key \in Keys : requestCertificate(user, key)

DoApproveCertificate ==
    \E user \in Users, number \in NumberInputs(certificatesdb) :
        approveCertificate(user, number)

DoRejectCertificate ==
    \E user \in Users, number \in NumberInputs(certificatesdb) :
        rejectCertificate(user, number)

DoVerifyCertificate ==
    \E number \in NumberInputs(certificatesdb), key \in Keys :
        verifyCertificate(number, key)

\* the members collection after cc created (c1, u1) with an ongoing role
MemberOfClub ==
    unique_roles_id(
        insert_one(<<>>,
            [cid |-> "c1", uid |-> "u1",
             roles |-> createMember_roles(CC,
                <<[name |-> "Coordinator", start_year |-> CurrentYear,
                   end_year |-> None]>>, 0)]),
        "u1", "c1", 0)

InitCert ==
    /\ membersdb = MemberOfClub
    /\ certificatesdb = <<>>
    /\ trail = <<>>
    /\ clock = 0
    /\ calls = 0
    /\ procs = <<>>
    /\ last = NoCall

NextCert ==
    \/ DoRequestCertificate
    \/ DoApproveCertificate
    \/ DoRejectCertificate
    \/ DoVerifyCertificate
    \/ Tick

SpecCert == InitCert /\ [][NextCert]_vars

(***************************************************************************)
(* approveCertificate and rejectCertificate as concurrent requests: each    *)
(* request reads the certificate with find_one, decides on the state it     *)
(* read, and writes with update_one filtered by the number alone.           *)
(***************************************************************************)
RaceUsers == {CC, SLO, Club1}

\* a request arrives
StartDecision(op, user, certificate_number) ==
    /\ Len(procs) < MaxProcs
    /\ procs' = Append(procs, [op |-> op, user |-> user, number |-> certificate_number,
                               pc |-> "find", seen |-> "", status |-> ""])
    /\ UNCHANGED <<membersdb, certificatesdb, trail, clock, last, calls>>

\* the role check and certificatesdb.find_one
DecisionFind(p) ==
    LET r == procs[p]
        not_found == IF r.op = "approveCertificate" THEN "Can not access certificate"
                     ELSE "No such certificate found"
    IN /\ r.pc = "find"
       /\ procs' = [procs EXCEPT ![p] =
            IF not_cc_nor_slo(r.user)
            THEN [r EXCEPT !.pc = "raised", !.status = "Not Authenticated or Unauthorized"]
            ELSE IF find_certificate(certificatesdb, r.number) = 0
            THEN [r EXCEPT !.pc = "raised", !.status = not_found]
            ELSE [r EXCEPT !.pc = "write",
                           !.seen = state_read(certificatesdb, r.number)]]
       /\ UNCHANGED <<membersdb, certificatesdb, trail, clock, last, calls>>

\* the decision on the state that was read and certificatesdb.update_one
DecisionWrite(p) ==
    LET r == procs[p]
        updation == IF r.op = "approveCertificate"
                    THEN approve_updation(r.seen, r.user, clock)
                    ELSE reject_updation(r.seen, r.user)
        i == find_certificate(certificatesdb, r.number)
    IN /\ r.pc = "write"
       /\ IF "error" \in DOMAIN updation
          THEN /\ procs' = [procs EXCEPT ![p] =
                              [r EXCEPT !.pc = "raised", !.status = updation.error]]
               /\ UNCHANGED <<certificatesdb, trail>>
          ELSE /\ procs' = [procs EXCEPT ![p] = [r EXCEPT !.pc = "done", !.status = "ok"]]
               /\ certificatesdb' = update_certificate(certificatesdb, r.number, updation)
               /\ trail' = IF i = 0 THEN trail
                           ELSE [trail EXCEPT ![i] =
                                    Append(@, [state |-> updation.state, by |-> r.user])]
       /\ UNCHANGED <<membersdb, clock, last, calls>>

DoStartDecision ==
    \E op \in {"approveCertificate", "rejectCertificate"}, user \in RaceUsers,
       number \in NumberInputs(certificatesdb) :
        StartDecision(op, user, number)

DoDecisionFind == \E p \in 1..Len(procs) : DecisionFind(p)

DoDecisionWrite == \E p \in 1..Len(procs) : DecisionWrite(p)

\* one certificate, as requestCertificate made it for the member
InitCertRace ==
    /\ membersdb = MemberOfClub
    /\ certificatesdb = <<new_certificate(MemberOfClub, <<>>, Student, "k1")>>
    /\ trail = <<<<[state |-> pending_cc, by |-> Student]>>>>
    /\ clock = 0
    /\ calls = 0
    /\ procs = <<>>
    /\ last = NoCall

NextCertRace ==
    \/ DoStartDecision
    \/ DoDecisionFind
    \/ DoDecisionWrite
    \/ Tick

SpecCertRace == InitCertRace /\ [][NextCertRace]_vars

(***************************************************************************)
(* createMember as concurrent requests: find_one, then insert_one against   *)
(* the unique_members index, then unique_roles_id.                          *)
(***************************************************************************)
\* the role lists the concurrent requests send
RaceRoleLists ==
    {<<>>,
     <<[name |-> "Coordinator", start_year |-> CurrentYear, end_year |-> None]>>,
     <<[name |-> "Member", start_year |-> CurrentYear,
        end_year |-> Some(CurrentYear + 1)]>>}

\* a request arrives
StartCreateMember(user, cid, uidIn, rolesIn) ==
    /\ Len(procs) < MaxProcs
    /\ procs' = Append(procs, [op |-> "createMember", user |-> user, cid |-> cid,
                               uid |-> transform_uid(uidIn), uidIn |-> uidIn,
                               roles |-> rolesIn, pc |-> "find", status |-> ""])
    /\ UNCHANGED <<membersdb, certificatesdb, trail, clock, last, calls>>

\* the checks of createMember up to the insert, membersdb.find_one among them
CreateFind(p) ==
    LET r == procs[p]
        status == createMember_status(membersdb, r.user, r.cid, r.uidIn, r.roles)
    IN /\ r.pc = "find"
       /\ procs' = [procs EXCEPT ![p] =
            IF status # "ok" THEN [r EXCEPT !.pc = "raised", !.status = status]
            ELSE [r EXCEPT !.pc = "insert"]]
       /\ UNCHANGED <<membersdb, certificatesdb, trail, clock, last, calls>>

\* membersdb.insert_one, refused by the unique_members index
CreateInsert(p) ==
    LET r == procs[p]
        doc == [cid |-> r.cid, uid |-> r.uid,
                roles |-> createMember_roles(r.user, r.roles, clock)]
    IN /\ r.pc = "insert"
       /\ IF DuplicateKey(membersdb, doc)
          THEN /\ procs' = [procs EXCEPT ![p] =
                              [r EXCEPT !.pc = "raised", !.status = "DuplicateKeyError"]]
               /\ UNCHANGED membersdb
          ELSE /\ procs' = [procs EXCEPT ![p] = [r EXCEPT !.pc = "ids"]]
               /\ membersdb' = insert_one(membersdb, doc)
       /\ UNCHANGED <<certificatesdb, trail, clock, last, calls>>

\* unique_roles_id(member_input["uid"], member_input["cid"])
CreateIds(p) ==
    LET r == procs[p]
    IN /\ r.pc = "ids"
       /\ procs' = [procs EXCEPT ![p] = [r EXCEPT !.pc = "done", !.status = "ok"]]
       /\ membersdb' = unique_roles_id(membersdb, r.uid, r.cid, clock)
       /\ UNCHANGED <<certificatesdb, trail, clock, last, calls>>

DoStartCreateMember ==
    \E user \in Users, cid \in Cids, uid \in UidInputs, roles \in RaceRoleLists :
        StartCreateMember(user, cid, uid, roles)

DoCreateFind == \E p \in 1..Len(procs) : CreateFind(p)

DoCreateInsert == \E p \in 1..Len(procs) : CreateInsert(p)

DoCreateIds == \E p \in 1..Len(procs) : CreateIds(p)

NextCreateRace ==
    \/ DoStartCreateMember
    \/ DoCreateFind
    \/ DoCreateInsert
    \/ DoCreateIds
    \/ Tick

SpecCreateRace == Init /\ [][NextCreateRace]_vars

(***************************************************************************)
(* requestCertificate as concurrent requests: count_documents, then         *)
(* memberRolesHelper and insert_one with the number made from that count.   *)
(***************************************************************************)
\* the count a request numbers its certificate with, re-read at the insert
count_at_insert(seen, certs) ==
    count_documents(certs, year_code(CurrentYear)) + 1

\* the count a request numbers its certificate with: the one it read
count_used(seen, certs) == seen

\* a request arrives
StartRequest(user, key) ==
    /\ Len(procs) < MaxProcs
    /\ procs' = Append(procs, [op |-> "requestCertificate", user |-> user, key |-> key,
                               pc |-> "count", seen |-> 0, at |-> 0, status |-> ""])
    /\ UNCHANGED <<membersdb, certificatesdb, trail, clock, last, calls>>

\* the user check and certificatesdb.count_documents(...) + 1
RequestCount(p) ==
    LET r == procs[p]
    IN /\ r.pc = "count"
       /\ procs' = [procs EXCEPT ![p] =
            IF r.user = NoUser
            THEN [r EXCEPT !.pc = "raised", !.status = "Not Authenticated"]
            ELSE [r EXCEPT !.pc = "insert",
                           !.seen = count_documents(certificatesdb,
                                                    year_code(CurrentYear)) + 1]]
       /\ UNCHANGED <<membersdb, certificatesdb, trail, clock, last, calls>>

\* memberRolesHelper, the certificate and certificatesdb.insert_one
RequestInsert(p) ==
    LET r == procs[p]
        user_memberships == memberRolesHelper(membersdb, r.user.uid, r.user)
        cert == Certificate(r.user.uid,
                            certificate_number_of(year_code(CurrentYear),
                                                  count_used(r.seen, certificatesdb)),
                            [user_id |-> r.user.uid,
                             memberships |-> memberships_of(user_memberships)],
                            r.key)
    IN /\ r.pc = "insert"
       /\ IF user_memberships = <<>>
          THEN /\ procs' = [procs EXCEPT ![p] =
                              [r EXCEPT !.pc = "raised", !.status = "No Memberships Found"]]
               /\ UNCHANGED <<certificatesdb, trail>>
          ELSE /\ procs' = [procs EXCEPT ![p] =
                              [r EXCEPT !.pc = "done", !.status = "ok",
                                        !.at = Len(certificatesdb) + 1]]
               /\ certificatesdb' = Append(certificatesdb, cert)
               /\ trail' = Append(trail, <<[state |-> cert.state, by |-> r.user]>>)
       /\ UNCHANGED <<membersdb, clock, last, calls>>

DoStartRequest == \E user \in Users, key \in Keys : StartRequest(user, key)

DoRequestCount == \E p \in 1..Len(procs) : RequestCount(p)

DoRequestInsert == \E p \in 1..Len(procs) : RequestInsert(p)

NextRequestRace ==
    \/ DoStartRequest
    \/ DoRequestCount
    \/ DoRequestInsert

SpecRequestRace == InitCert /\ [][NextRequestRace]_vars

(***************************************************************************)
(* editMember as concurrent requests: the checks and find_one, then the     *)
(* merge against the roles that were read and update_one, then              *)
(* unique_roles_id.                                                         *)
(***************************************************************************)
\* the stored roles a request merges against, read again at the write
roles_at_write(seen, db, cid, uid) ==
    IF find_one(db, cid, uid) = 0 THEN seen
    ELSE model_validate(db[find_one(db, cid, uid)]).roles

\* the stored roles a request merges against: member_ref.roles, as read
member_roles_used(seen, db, cid, uid) == seen

\* the number of requests that have written
Writes == Cardinality({p \in 1..Len(procs) : procs[p].wrote # 0})

\* a request arrives
StartEditMember(user, cid, uidIn, rolesIn) ==
    /\ Len(procs) < MaxProcs
    /\ procs' = Append(procs, [op |-> "editMember", user |-> user, cid |-> cid,
                               uid |-> transform_uid(uidIn), uidIn |-> uidIn,
                               roles |-> rolesIn, pc |-> "find", status |-> "",
                               seen |-> <<>>, time |-> 0, readAt |-> 0, wrote |-> 0])
    /\ UNCHANGED <<membersdb, certificatesdb, trail, clock, last, calls>>

\* the checks of editMember, membersdb.find_one and the time of the request
EditFind(p) ==
    LET r == procs[p]
        status == editMember_status(membersdb, r.user, r.cid, r.uidIn, r.roles)
    IN /\ r.pc = "find"
       /\ procs' = [procs EXCEPT ![p] =
            IF status # "ok" THEN [r EXCEPT !.pc = "raised", !.status = status]
            ELSE [r EXCEPT !.pc = "write",
                           !.seen = model_validate(
                                membersdb[find_one(membersdb, r.cid, r.uid)]).roles,
                           !.time = clock,
                           !.readAt = Writes]]
       /\ UNCHANGED <<membersdb, certificatesdb, trail, clock, last, calls>>

\* the loop over the submitted roles and membersdb.update_one
EditWrite(p) ==
    LET r == procs[p]
        roles == editMember_roles([i \in 1..Len(r.roles) |-> Roles(r.roles[i])],
                                  member_roles_used(r.seen, membersdb, r.cid, r.uid),
                                  r.user, r.time)
    IN /\ r.pc = "write"
       /\ procs' = [procs EXCEPT ![p] = [r EXCEPT !.pc = "ids", !.wrote = Writes + 1]]
       /\ membersdb' = update_roles(membersdb, r.cid, r.uid, roles)
       /\ UNCHANGED <<certificatesdb, trail, clock, last, calls>>

\* unique_roles_id(member_input["uid"], member_input["cid"])
EditIds(p) ==
    LET r == procs[p]
    IN /\ r.pc = "ids"
       /\ procs' = [procs EXCEPT ![p] = [r EXCEPT !.pc = "done", !.status = "ok"]]
       /\ membersdb' = unique_roles_id(membersdb, r.uid, r.cid, clock)
       /\ UNCHANGED <<certificatesdb, trail, clock, last, calls>>

DoStartEditMember ==
    \E user \in Users, cid \in Cids, uid \in UidInputs, roles \in RaceRoleLists :
        StartEditMember(user, cid, uid, roles)

DoEditFind == \E p \in 1..Len(procs) : EditFind(p)

DoEditWrite == \E p \in 1..Len(procs) : EditWrite(p)

DoEditIds == \E p \in 1..Len(procs) : EditIds(p)

NextEditRace ==
    \/ DoStartEditMember
    \/ DoEditFind
    \/ DoEditWrite
    \/ DoEditIds
    \/ Tick

SpecEditRace == InitCert /\ [][NextEditRace]_vars

(***************************************************************************)
(* mutations.py updateMembersCid, and the member resolvers together with    *)
(* the certificate resolvers.                                               *)
(***************************************************************************)
\* getenv("INTER_COMMUNICATION_SECRET")
inter_communication_secret_global == Some("secret")

\* the secrets a caller sends
SecretInputs == {None, Some("secret")}

\* the cids updateMembersCid is called with
CidInputs == {"c1", "c2"}

\* updateMembersCid: the exception it raises, "ok" when it raises none
updateMembersCid_status(user, inter_communication_secret) ==
    IF user = NoUser \/ user.role # "cc" THEN "Not Authenticated!"
    ELSE IF inter_communication_secret # inter_communication_secret_global
        THEN "Authentication Error! Invalid secret!"
    ELSE "ok"

\* membersdb.update_many({"cid": old_cid}, {"$set": {"cid": new_cid}}) from
\* document i on: the documents are updated in order and the update stops at
\* the first one the unique_members index refuses
RECURSIVE update_many_cid(_, _, _, _)
update_many_cid(db, old_cid, new_cid, i) ==
    IF i > Len(db) THEN [db |-> db, status |-> "ok"]
    ELSE IF db[i].cid # old_cid THEN update_many_cid(db, old_cid, new_cid, i + 1)
    ELSE IF \E j \in 1..Len(db) :
                j # i /\ db[j].cid = new_cid /\ db[j].uid = db[i].uid
        THEN [db |-> db, status |-> "DuplicateKeyError"]
    ELSE update_many_cid([db EXCEPT ![i].cid = new_cid], old_cid, new_cid, i + 1)

updateMembersCid(user, old_cid, new_cid, inter_communication_secret) ==
    LET status == updateMembersCid_status(user, inter_communication_secret)
        upd_ref == update_many_cid(membersdb, old_cid, new_cid, 1)
    IN /\ IF status # "ok"
          THEN /\ last' = Raised("updateMembersCid", user, old_cid, "", status)
               /\ UNCHANGED membersdb
          ELSE /\ membersdb' = upd_ref.db
               /\ last' = Call("updateMembersCid", user, old_cid, "", <<>>, None,
                               upd_ref.status, membersdb)
       /\ UNCHANGED <<certificatesdb, trail, clock, procs>>
       /\ calls' = calls + 1

DoUpdateMembersCid ==
    /\ calls < MaxCalls
    /\ \E user \in Users, old_cid \in CidInputs, new_cid \in CidInputs,
          secret \in SecretInputs :
        updateMembersCid(user, old_cid, new_cid, secret)

\* the member is stored, and MaxSnapshotCalls member calls of the run are left
InitSnapshot ==
    /\ membersdb = MemberOfClub
    /\ certificatesdb = <<>>
    /\ trail = <<>>
    /\ clock = 0
    /\ calls = MaxCalls - MaxSnapshotCalls
    /\ procs = <<>>
    /\ last = NoCall

NextSnapshot ==
    \/ DoCreateMember
    \/ DoEditMember
    \/ DoDeleteMember
    \/ DoApproveMember
    \/ DoRejectMember
    \/ DoUpdateMembersCid
    \/ DoRequestCertificate
    \/ DoApproveCertificate
    \/ DoRejectCertificate

SpecSnapshot == InitSnapshot /\ [][NextSnapshot]_vars

(***************************************************************************)
(* queries.py: the member queries, and the resolvers together with them.    *)
(***************************************************************************)
\* user is None -> "public", else user["role"]
role_of(user) == IF user = NoUser THEN "public" ELSE user.role

\* membersdb.find({"cid": cid}), membersdb.find({}) for "all"
find_members(db, cid) ==
    IF cid = "all" THEN db ELSE SelectSeq(db, LAMBDA d : d.cid = cid)

\* results with the filtered roles: the members left with a role, validated
members_with_roles(results) ==
    LET kept == SelectSeq(results, LAMBDA d : Len(d.roles) > 0)
    IN [i \in 1..Len(kept) |-> model_validate(kept[i])]

\* member: the exception it raises, "ok" when it raises none
member_status(db, user, cid, uid) ==
    IF user = NoUser THEN "Not Authenticated"
    ELSE IF not_club_nor_cc(user, cid) THEN "Not Authenticated to access this API"
    ELSE IF find_one(db, cid, uid) = 0 THEN "No such Record"
    ELSE "ok"

\* member: the member it returns
member_result(db, cid, uid) == <<model_validate(db[find_one(db, cid, uid)])>>

member(user, cid, uid) ==
    LET status == member_status(membersdb, user, cid, uid)
    IN /\ last' = IF status # "ok" THEN Raised("member", user, cid, uid, status)
                  ELSE Returning(
                         Call("member", user, cid, uid, <<>>, None, "ok", membersdb),
                         member_result(membersdb, cid, uid))
       /\ UNCHANGED <<membersdb, certificatesdb, trail, clock, procs>>
       /\ calls' = calls + 1

\* memberRoles: memberRolesHelper(uid, info)
memberRoles(user, uid) ==
    /\ last' = Returning(
                 Call("memberRoles", user, "", uid, <<>>, None, "ok", membersdb),
                 memberRolesHelper(membersdb, uid, user))
    /\ UNCHANGED <<membersdb, certificatesdb, trail, clock, procs>>
    /\ calls' = calls + 1

\* members where the owning club sees what the public sees
members_roles_for_cc_only(roles, user, cid) ==
    SelectSeq(roles, LAMBDA i :
        /\ ~i.deleted
        /\ ~(role_of(user) = "cc") => i.approved)

\* members: roles_result
members_roles(roles, user, cid) ==
    SelectSeq(roles, LAMBDA i :
        /\ ~i.deleted
        /\ ~(role_of(user) = "cc" \/ (role_of(user) = "club" /\ user.uid = cid))
                => i.approved)

\* members: the members it returns
members_result(db, user, cid) ==
    LET results == IF role_of(user) # "cc" \/ cid # "clubs"
                   THEN find_members(db, cid) ELSE find_members(db, "all")
    IN members_with_roles(
        [k \in 1..Len(results) |->
            [results[k] EXCEPT !.roles = members_roles(results[k].roles, user, cid)]])

members(user, cid) ==
    /\ last' = Returning(
                 Call("members", user, cid, "", <<>>, None, "ok", membersdb),
                 members_result(membersdb, user, cid))
    /\ UNCHANGED <<membersdb, certificatesdb, trail, clock, procs>>
    /\ calls' = calls + 1

\* currentMembers without the test of end_year
currentMembers_roles_keeping_ended(roles) ==
    SelectSeq(roles, LAMBDA i : ~i.deleted /\ i.approved)

\* currentMembers: roles_result
currentMembers_roles(roles) ==
    SelectSeq(roles, LAMBDA i : ~(i.deleted \/ i.end_year # None) /\ i.approved)

\* currentMembers: the members it returns
currentMembers_result(db, cid) ==
    LET results == IF cid = "clubs" THEN find_members(db, "all")
                   ELSE find_members(db, cid)
    IN members_with_roles(
        [k \in 1..Len(results) |->
            [results[k] EXCEPT !.roles = currentMembers_roles(results[k].roles)]])

currentMembers(user, cid) ==
    /\ last' = IF cid = "clubs" /\ role_of(user) # "cc"
               THEN Raised("currentMembers", user, cid, "", "Not Authenticated")
               ELSE Returning(
                      Call("currentMembers", user, cid, "", <<>>, None, "ok", membersdb),
                      currentMembers_result(membersdb, cid))
    /\ UNCHANGED <<membersdb, certificatesdb, trail, clock, procs>>
    /\ calls' = calls + 1

\* pendingMembers without the test of rejected
pendingMembers_roles_keeping_rejected(roles) ==
    SelectSeq(roles, LAMBDA i : ~(i.deleted \/ i.approved))

\* pendingMembers: roles_result
pendingMembers_roles(roles) ==
    SelectSeq(roles, LAMBDA i : ~(i.deleted \/ i.approved \/ i.rejected))

\* pendingMembers: the members it returns
pendingMembers_result(db) ==
    members_with_roles(
        [k \in 1..Len(db) |->
            [db[k] EXCEPT !.roles = pendingMembers_roles(db[k].roles)]])

pendingMembers(user) ==
    /\ last' = IF user = NoUser \/ user.role # "cc"
               THEN Raised("pendingMembers", user, "", "", "Not Authenticated")
               ELSE Returning(
                      Call("pendingMembers", user, "", "", <<>>, None, "ok", membersdb),
                      pendingMembers_result(membersdb))
    /\ UNCHANGED <<membersdb, certificatesdb, trail, clock, procs>>
    /\ calls' = calls + 1

\* the cid a query is sent with: a club, or "clubs" for all of them
ReadCids == Cids \cup {"clubs"}

DoMember ==
    /\ calls < MaxCalls
    /\ \E user \in Users, cid \in Cids, uid \in UidInputs : member(user, cid, uid)

DoMemberRoles ==
    /\ calls < MaxCalls
    /\ \E user \in Users, uid \in UidInputs : memberRoles(user, uid)

DoMembers ==
    /\ calls < MaxCalls
    /\ \E user \in Users, cid \in ReadCids : members(user, cid)

DoCurrentMembers ==
    /\ calls < MaxCalls
    /\ \E user \in Users, cid \in ReadCids : currentMembers(user, cid)

DoPendingMembers ==
    /\ calls < MaxCalls
    /\ \E user \in Users : pendingMembers(user)

NextView ==
    \/ DoCreateMember
    \/ DoEditMember
    \/ DoDeleteMember
    \/ DoApproveMember
    \/ DoRejectMember
    \/ DoMember
    \/ DoMemberRoles
    \/ DoMembers
    \/ DoCurrentMembers
    \/ DoPendingMembers
    \/ Tick

SpecView == Init /\ [][NextView]_vars

\* a Membership of club c2 with one role, as createMember stores it for cc
MemberOfClub2 ==
    unique_roles_id(
        insert_one(<<>>,
            [cid |-> "c2", uid |-> "u1",
             roles |-> createMember_roles(CC,
                <<[name |-> "Coordinator", start_year |-> CurrentYear,
                   end_year |-> None]>>, 0)]),
        "u1", "c2", 0)

\* the Membership of c2 is stored before the calls of the run
InitTwoClubs ==
    /\ membersdb = MemberOfClub2
    /\ certificatesdb = <<>>
    /\ trail = <<>>
    /\ clock = 0
    /\ calls = 0
    /\ procs = <<>>
    /\ last = NoCall

SpecTwoClubs == InitTwoClubs /\ [][NextView]_vars

(***************************************************************************)
(* The resolvers that take a uid, called with the uid in either letter      *)
(* case: FullMemberInput goes through Member.transform_uid,                 *)
(* SimpleMemberInput is used as it is sent.                                 *)
(***************************************************************************)
\* one user id, as the Users service has it and in capitals
UidCases == {"u1", "U1"}

DoCreateMemberCased ==
    /\ calls < MaxCalls
    /\ \E user \in Users, cid \in Cids, uid \in UidCases, roles \in RaceRoleLists :
        createMember(user, cid, uid, roles)

DoMemberCased ==
    /\ calls < MaxCalls
    /\ \E user \in Users, cid \in Cids, uid \in UidCases : member(user, cid, uid)

DoDeleteMemberCased ==
    /\ calls < MaxCalls
    /\ \E user \in Users, cid \in Cids, uid \in UidCases :
        \E rid \in RidInputsFor(deleteMember_status(membersdb, user, cid, uid),
                                membersdb, cid, uid) :
            deleteMember(user, cid, uid, rid)

DoApproveMemberCased ==
    /\ calls < MaxCalls
    /\ \E user \in Users, cid \in Cids, uid \in UidCases :
        \E rid \in RidInputsFor(ccOnly_status(membersdb, user, cid, uid),
                                membersdb, cid, uid) :
            approveMember(user, cid, uid, rid)

DoRejectMemberCased ==
    /\ calls < MaxCalls
    /\ \E user \in Users, cid \in Cids, uid \in UidCases :
        \E rid \in RidInputsFor(ccOnly_status(membersdb, user, cid, uid),
                                membersdb, cid, uid) :
            rejectMember(user, cid, uid, rid)

NextUid ==
    \/ DoCreateMemberCased
    \/ DoMemberCased
    \/ DoDeleteMemberCased
    \/ DoApproveMemberCased
    \/ DoRejectMemberCased
    \/ Tick

SpecUid == Init /\ [][NextUid]_vars

(***************************************************************************)
(* The member resolvers called for club c2, whose Membership is stored.     *)
(***************************************************************************)
\* the cid the calls are sent with
OtherCids == {"c2"}

DoCreateMemberOther ==
    /\ calls < MaxCalls
    /\ \E user \in Users, cid \in OtherCids, uid \in UidInputs :
        \E roles \in RoleListsFor(createMember_status(membersdb, user, cid, uid, <<>>)) :
            createMember(user, cid, uid, roles)

DoEditMemberOther ==
    /\ calls < MaxCalls
    /\ \E user \in Users, cid \in OtherCids, uid \in UidInputs :
        \E roles \in RoleListsFor(editMember_status(membersdb, user, cid, uid, <<>>)) :
            editMember(user, cid, uid, roles)

DoDeleteMemberOther ==
    /\ calls < MaxCalls
    /\ \E user \in Users, cid \in OtherCids, uid \in UidInputs :
        \E rid \in RidInputsFor(deleteMember_status(membersdb, user, cid, uid),
                                membersdb, cid, uid) :
            deleteMember(user, cid, uid, rid)

DoApproveMemberOther ==
    /\ calls < MaxCalls
    /\ \E user \in Users, cid \in OtherCids, uid \in UidInputs :
        \E rid \in RidInputsFor(ccOnly_status(membersdb, user, cid, uid),
                                membersdb, cid, uid) :
            approveMember(user, cid, uid, rid)

NextOtherClub ==
    \/ DoCreateMemberOther
    \/ DoEditMemberOther
    \/ DoDeleteMemberOther
    \/ DoApproveMemberOther
    \/ Tick

SpecOtherClub == InitTwoClubs /\ [][NextOtherClub]_vars

(***************************************************************************)
(* requestCertificate for a member whose role is pending, by callers of     *)
(* every role, a cc account that is itself the member among them.           *)
(***************************************************************************)
\* a caller with role cc whose uid is the member's
CCMember == [role |-> "cc", uid |-> "u1"]

\* the Membership of c1 as createMember stores it for the club: pending
PendingMemberOfClub ==
    unique_roles_id(
        insert_one(<<>>,
            [cid |-> "c1", uid |-> "u1",
             roles |-> createMember_roles(Club1,
                <<[name |-> "Coordinator", start_year |-> CurrentYear,
                   end_year |-> None]>>, 0)]),
        "u1", "c1", 0)

InitRequester ==
    /\ membersdb = PendingMemberOfClub
    /\ certificatesdb = <<>>
    /\ trail = <<>>
    /\ clock = 0
    /\ calls = 0
    /\ procs = <<>>
    /\ last = NoCall

DoRequestCertificateBy ==
    /\ Len(certificatesdb) < MaxCerts
    /\ \E user \in Users \cup {CCMember}, key \in Keys : requestCertificate(user, key)

NextRequester ==
    \/ DoDeleteMember
    \/ DoApproveMember
    \/ DoRequestCertificateBy
    \/ Tick

SpecRequester == InitRequester /\ [][NextRequester]_vars

(***************************************************************************)
(* Concurrent requestCertificate requests, and approveCertificate and       *)
(* rejectCertificate on the certificates they leave.                        *)
(***************************************************************************)
NextDuplicates ==
    \/ DoStartRequest
    \/ DoRequestCount
    \/ DoRequestInsert
    \/ DoApproveCertificate
    \/ DoRejectCertificate
    \/ Tick

SpecDuplicates == InitCert /\ [][NextDuplicates]_vars

(***************************************************************************)
(* What the claims speak of.                                                *)
(***************************************************************************)
\* the stored roles of (cid, uid), <<>> when there is no such Membership
StoredRoles(db, cid, uid) ==
    IF find_one(db, cid, uid) = 0 THEN <<>> ELSE db[find_one(db, cid, uid)].roles

\* the roles of the Membership the last call was about, before and after it
Before == StoredRoles(last.before, last.cid, last.uid)
After == StoredRoles(membersdb, last.cid, last.uid)

Succeeded(op) == last.op = op /\ last.status = "ok"

\* a role is picked by approveMember / rejectMember / deleteMember(rid)
Picked(role, rid) == rid = None \/ role.rid = rid

SameInterval(a, b) ==
    a.name = b.name /\ a.start_year = b.start_year /\ a.end_year = b.end_year

\* the number of roles among the first j of a list that have role r's
\* (name, start, end)
Occurrence(roles, j, r) ==
    Cardinality({i \in 1..j : SameInterval(roles[i], r)})

(***************************************************************************)
(* C1. Mutual exclusion: no stored role is approved and rejected at once;   *)
(* approveMember leaves each role it picks approved with rejected = false   *)
(* and no rejection_time, and rejectMember leaves each role it picks        *)
(* rejected with approved = false and no approval_time.                     *)
(***************************************************************************)
C1_MutualExclusion ==
    /\ \A i \in 1..Len(membersdb) : \A k \in 1..Len(membersdb[i].roles) :
        ~(membersdb[i].roles[k].approved /\ membersdb[i].roles[k].rejected)
    /\ Succeeded("approveMember") =>
        \A k \in 1..Len(Before) :
            Picked(Before[k], last.rid) =>
                /\ After[k].approved
                /\ ~After[k].rejected
                /\ After[k].rejection_time = None
    /\ Succeeded("rejectMember") =>
        \A k \in 1..Len(Before) :
            Picked(Before[k], last.rid) =>
                /\ After[k].rejected
                /\ ~After[k].approved
                /\ After[k].approval_time = None

\* approveMember has just approved a role that was rejected
C1_Witness ==
    /\ Succeeded("approveMember")
    /\ \E k \in 1..Len(Before) :
        /\ Picked(Before[k], last.rid)
        /\ Before[k].rejected
        /\ Before[k].rejection_time # None
        /\ After[k].approved

(***************************************************************************)
(* C6 as stated. editMember: every submitted role whose (name, start, end)  *)
(* is that of a stored role is persisted with the approved, rejected and    *)
(* deleted flags of a stored role of that (name, start, end).               *)
(***************************************************************************)
C6_CarryOver_AsStated ==
    Succeeded("editMember") =>
        \A j \in 1..Len(last.roles) :
            (\E k \in 1..Len(Before) : SameInterval(Before[k], last.roles[j])) =>
                \E k \in 1..Len(Before) :
                    /\ SameInterval(Before[k], last.roles[j])
                    /\ After[j].approved = Before[k].approved
                    /\ After[j].rejected = Before[k].rejected
                    /\ After[j].deleted = Before[k].deleted

(***************************************************************************)
(* C6 amended. editMember: the n-th submitted role of a (name, start, end)  *)
(* is persisted with the approved, rejected and deleted flags of the n-th   *)
(* stored role of that (name, start, end), when there are n such stored     *)
(* roles, whoever the caller is.                                            *)
(***************************************************************************)
C6_CarryOver ==
    Succeeded("editMember") =>
        \A j \in 1..Len(last.roles) : \A k \in 1..Len(Before) :
            ( /\ SameInterval(Before[k], After[j])
              /\ Occurrence(Before, k, Before[k]) = Occurrence(After, j, After[j]) ) =>
                /\ After[j].approved = Before[k].approved
                /\ After[j].rejected = Before[k].rejected
                /\ After[j].deleted = Before[k].deleted

\* a club has just resubmitted, second in its list, a role stored approved
C6_Witness ==
    /\ Succeeded("editMember")
    /\ last.user.role = "club"
    /\ Len(last.roles) = 2
    /\ \E k \in 1..Len(Before) :
        /\ SameInterval(Before[k], last.roles[2])
        /\ ~SameInterval(Before[k], last.roles[1])
        /\ Before[k].approved
        /\ After[2].approved

(***************************************************************************)
(* C7. Identifier stability: a role that has a role id keeps it through     *)
(* deleteMember(rid), approveMember and rejectMember, and a resubmitted     *)
(* role keeps it through editMember.                                        *)
(***************************************************************************)
C7_IdentifierStability ==
    /\ ( /\ last.op \in {"deleteMember", "approveMember", "rejectMember"}
         /\ last.status = "ok"
         /\ Len(After) = Len(Before) ) =>
            \A k \in 1..Len(Before) :
                Before[k].rid # None => After[k].rid = Before[k].rid
    /\ Succeeded("editMember") =>
            \A j \in 1..Len(After) : \A k \in 1..Len(Before) :
                ( /\ SameInterval(Before[k], After[j])
                  /\ Occurrence(Before, k, Before[k]) = Occurrence(After, j, After[j]) ) =>
                    After[j].rid = Before[k].rid

(***************************************************************************)
(* C8. After every resolver call each stored role has a role id, and the    *)
(* role ids of one Membership are pairwise distinct.                        *)
(***************************************************************************)
C8_UniqueRoleIds ==
    \A i \in 1..Len(membersdb) :
        LET roles == membersdb[i].roles
        IN /\ \A k \in 1..Len(roles) : roles[k].rid # None
           /\ \A k, m \in 1..Len(roles) : k # m => roles[k].rid # roles[m].rid

\* createMember has just stored two roles at once
C8_Witness ==
    /\ Succeeded("createMember")
    /\ Len(After) = 2
    /\ After[1].rid # After[2].rid

StatesOf(i) == [k \in 1..Len(trail[i]) |-> trail[i][k].state]

C2_Lifecycle ==
    \A i \in 1..Len(certificatesdb) :
        /\ StatesOf(i) \in {<<pending_cc>>,
                            <<pending_cc, pending_slo>>,
                            <<pending_cc, pending_slo, approved>>,
                            <<pending_cc, rejected>>,
                            <<pending_cc, pending_slo, rejected>>}
        /\ certificatesdb[i].state = StatesOf(i)[Len(trail[i])]
        /\ certificatesdb[i].state = approved =>
            /\ trail[i][2].by.role = "cc"
            /\ trail[i][3].by.role = "slo"
            /\ certificatesdb[i].cc_approver = Some(trail[i][2].by.uid)
            /\ certificatesdb[i].slo_approver = Some(trail[i][3].by.uid)
            /\ certificatesdb[i].cc_approved_at # None
            /\ certificatesdb[i].slo_approved_at # None

\* slo has just approved a certificate, and another one stands rejected
C2_Witness ==
    /\ last.op = "approveCertificate"
    /\ last.status = "ok"
    /\ last.user.role = "slo"
    /\ \E i, j \in 1..Len(certificatesdb) :
        /\ certificatesdb[i].certificate_number = last.number
        /\ certificatesdb[i].state = approved
        /\ certificatesdb[j].state = rejected

(***************************************************************************)
(* C3. approveCertificate and rejectCertificate on a stored certificate     *)
(* whose (state, caller role) is neither (pending_cc, cc) nor               *)
(* (pending_slo, slo) raise an error and leave every certificate, state     *)
(* and stamps, as it was.                                                   *)
(***************************************************************************)
C3_RefusedCombinations ==
    ( /\ last.op \in {"approveCertificate", "rejectCertificate"}
      /\ find_certificate(last.certs, last.number) # 0 ) =>
        LET c == last.certs[find_certificate(last.certs, last.number)]
        IN ~( \/ c.state = pending_cc /\ last.user.role = "cc"
              \/ c.state = pending_slo /\ last.user.role = "slo" ) =>
                /\ last.status # "ok"
                /\ certificatesdb = last.certs

\* cc has just been refused the rejection of an approved certificate
C3_Witness ==
    /\ last.op = "rejectCertificate"
    /\ last.user.role = "cc"
    /\ find_certificate(last.certs, last.number) # 0
    /\ last.certs[find_certificate(last.certs, last.number)].state = approved
    /\ last.status = "Can not reject certificate"
    /\ certificatesdb = last.certs

(***************************************************************************)
(* C4. Terminal immutability under concurrency: no write of concurrently    *)
(* running approveCertificate and rejectCertificate requests changes the    *)
(* state of a certificate that is approved or rejected.                     *)
(***************************************************************************)
C4_TerminalImmutability ==
    [][\A i \in 1..Len(certificatesdb) :
            certificatesdb[i].state \in {approved, rejected} =>
                certificatesdb'[i].state = certificatesdb[i].state]_vars

(***************************************************************************)
(* C5. verifyCertificate(number, key) returns the certificate exactly when  *)
(* a certificate with the number is stored, it is not rejected, its key is  *)
(* the key given and it is approved; it changes no certificate.             *)
(***************************************************************************)
C5_Verification ==
    last.op = "verifyCertificate" =>
        /\ last.status = "ok" <=>
            \E i \in 1..Len(last.certs) :
                /\ last.certs[i].certificate_number = last.number
                /\ last.certs[i].state # rejected
                /\ last.certs[i].key = last.key
                /\ last.certs[i].state = approved
        /\ certificatesdb = last.certs

\* an approved certificate has just been verified with its key
C5_Witness ==
    /\ last.op = "verifyCertificate"
    /\ last.status = "ok"
    /\ \E i \in 1..Len(certificatesdb) :
        /\ certificatesdb[i].certificate_number = last.number
        /\ certificatesdb[i].key = last.key
        /\ certificatesdb[i].state = approved

(***************************************************************************)
(* C9. Membership uniqueness under concurrent createMember requests: no     *)
(* step leaves two Memberships with one (cid, uid); a createMember that     *)
(* comes to its find_one or its insert_one when the pair has a Membership   *)
(* raises and leaves the collection as it was, and the error is the         *)
(* conflict one when the caller and the input passed the earlier checks.    *)
(***************************************************************************)
PassedEarlierChecks(r) ==
    /\ r.user # NoUser
    /\ \A i \in 1..Len(r.roles) : fields_valid(r.roles[i])
    /\ ~not_club_nor_cc(r.user, r.cid)

C9_MembershipUniqueness ==
    [][ /\ \A i, j \in 1..Len(membersdb') :
            ( /\ membersdb'[i].cid = membersdb'[j].cid
              /\ membersdb'[i].uid = membersdb'[j].uid ) => i = j
        /\ \A p \in 1..Len(procs) :
            ( /\ procs[p].pc \in {"find", "insert"}
              /\ procs'[p] # procs[p]
              /\ Matches(membersdb, procs[p].cid, procs[p].uid) # {} ) =>
                /\ procs'[p].pc = "raised"
                /\ membersdb' = membersdb
                /\ PassedEarlierChecks(procs[p]) =>
                    procs'[p].status \in
                        {"A record with same uid and cid already exists",
                         "DuplicateKeyError"} ]_vars

\* of two requests that both found no Membership, one inserted and the
\* other was refused by the index
C9_Witness ==
    \E p, q \in 1..Len(procs) :
        /\ procs[p].pc = "raised"
        /\ procs[p].status = "DuplicateKeyError"
        /\ procs[q].pc = "done"
        /\ procs[q].cid = procs[p].cid
        /\ procs[q].uid = procs[p].uid
        /\ Cardinality(Matches(membersdb, procs[p].cid, procs[p].uid)) = 1

(***************************************************************************)
(* Helpers of the claims on what the resolvers return.                      *)
(***************************************************************************)
\* the roles returned for the Membership (cid, uid), <<>> when it is not
\* in the result
ResultRoles(cid, uid) ==
    IF \E d \in 1..Len(last.result) :
            last.result[d].cid = cid /\ last.result[d].uid = uid
    THEN last.result[CHOOSE d \in 1..Len(last.result) :
            last.result[d].cid = cid /\ last.result[d].uid = uid].roles
    ELSE <<>>

\* the caller is cc or the club that owns the Memberships of cid
Insider(user, cid) ==
    user.role = "cc" \/ (user.role = "club" /\ user.uid = cid)

\* the stored Membership i is among those the last query asked for
Queried(i) ==
    \/ /\ last.op = "members"
       /\ membersdb[i].cid = last.cid \/ (last.user.role = "cc" /\ last.cid = "clubs")
    \/ /\ last.op = "memberRoles"
       /\ membersdb[i].uid = last.uid

NonDeleted(roles) == SelectSeq(roles, LAMBDA r : ~r.deleted)

ApprovedNonDeleted(roles) == SelectSeq(roles, LAMBDA r : r.approved /\ ~r.deleted)

(***************************************************************************)
(* C11. No role with deleted = true is in what member, memberRoles,         *)
(* members, currentMembers, pendingMembers, editMember, deleteMember,       *)
(* approveMember or rejectMember return, whoever calls.                     *)
(***************************************************************************)
C11_DeletedNeverReturned ==
    last.op \in {"member", "memberRoles", "members", "currentMembers",
                 "pendingMembers", "editMember", "deleteMember",
                 "approveMember", "rejectMember"} =>
        \A d \in 1..Len(last.result) :
            \A k \in 1..Len(last.result[d].roles) :
                ~last.result[d].roles[k].deleted

(***************************************************************************)
(* C12. Public visibility: to a caller that is neither cc nor the club      *)
(* owning the Membership, members and memberRoles return of a Membership    *)
(* exactly its roles with approved = true and deleted = false; no role      *)
(* with approved = false is in the result.                                  *)
(***************************************************************************)
C12_PublicVisibility ==
    (last.op \in {"members", "memberRoles"} /\ last.status = "ok") =>
        \A i \in 1..Len(membersdb) :
            (Queried(i) /\ ~Insider(last.user, membersdb[i].cid)) =>
                LET returned == ResultRoles(membersdb[i].cid, membersdb[i].uid)
                IN /\ \A k \in 1..Len(returned) :
                        returned[k].approved /\ ~returned[k].deleted
                   /\ \A k \in 1..Len(membersdb[i].roles) :
                        ~membersdb[i].roles[k].approved =>
                            \A j \in 1..Len(returned) :
                                returned[j] # membersdb[i].roles[k]
                   /\ returned = ApprovedNonDeleted(membersdb[i].roles)

\* a student has just listed the members of a club and got the approved
\* role of a Membership that also has a pending one
C12_Witness ==
    /\ last.op = "members"
    /\ last.user = Student
    /\ \E i \in 1..Len(membersdb) :
        /\ Queried(i)
        /\ \E k \in 1..Len(membersdb[i].roles) :
            ~membersdb[i].roles[k].approved /\ ~membersdb[i].roles[k].deleted
        /\ Len(ResultRoles(membersdb[i].cid, membersdb[i].uid)) = 1

(***************************************************************************)
(* C13 as stated. Owner and admin visibility: to cc and to the club owning  *)
(* the Membership, members and memberRoles both return every non-deleted    *)
(* role of the Membership, approved, pending or rejected.                   *)
(***************************************************************************)
C13_OwnerAdminVisibility_AsStated ==
    (last.op \in {"members", "memberRoles"} /\ last.status = "ok") =>
        \A i \in 1..Len(membersdb) :
            (Queried(i) /\ Insider(last.user, membersdb[i].cid)) =>
                ResultRoles(membersdb[i].cid, membersdb[i].uid)
                    = NonDeleted(membersdb[i].roles)

(***************************************************************************)
(* C13 amended. members returns to cc and to the owning club every          *)
(* non-deleted role of the Membership; memberRoles returns every            *)
(* non-deleted role to cc, and to the owning club, as to any other caller,  *)
(* the approved non-deleted roles.                                          *)
(***************************************************************************)
C13_OwnerAdminVisibility ==
    (last.op \in {"members", "memberRoles"} /\ last.status = "ok") =>
        \A i \in 1..Len(membersdb) :
            (Queried(i) /\ Insider(last.user, membersdb[i].cid)) =>
                ResultRoles(membersdb[i].cid, membersdb[i].uid)
                    = IF last.op = "members" \/ last.user.role = "cc"
                      THEN NonDeleted(membersdb[i].roles)
                      ELSE ApprovedNonDeleted(membersdb[i].roles)

\* the owning club has just listed its members and got a pending role
C13_Witness ==
    /\ last.op = "members"
    /\ last.user = Club1
    /\ \E d \in 1..Len(last.result) : \E k \in 1..Len(last.result[d].roles) :
        /\ last.result[d].cid = "c1"
        /\ ~last.result[d].roles[k].approved
        /\ ~last.result[d].roles[k].rejected

(***************************************************************************)
(* C14. createMember, editMember and deleteMember succeed only for cc and   *)
(* for the club whose id is the target cid; for any other caller they       *)
(* raise and the members collection is as it was.                           *)
(***************************************************************************)
C14_WriteAuthorization ==
    last.op \in {"createMember", "editMember", "deleteMember"} =>
        /\ last.status = "ok" => Insider(last.user, last.cid)
        /\ ~Insider(last.user, last.cid) =>
            /\ last.status # "ok"
            /\ membersdb = last.before

\* another club has just been refused the edit of a stored Membership
C14_Witness ==
    /\ last.op = "editMember"
    /\ last.user = Club2
    /\ last.status = "Not Authenticated to access this API"
    /\ find_one(membersdb, last.cid, last.uid) # 0
    /\ membersdb = last.before

(***************************************************************************)
(* C15. approveMember and rejectMember succeed only for cc; for any other   *)
(* caller, the owning club included, they raise and every stored role is    *)
(* as it was.                                                               *)
(***************************************************************************)
C15_ApprovalAuthorization ==
    last.op \in {"approveMember", "rejectMember"} =>
        /\ last.status = "ok" => last.user.role = "cc"
        /\ last.user.role # "cc" =>
            /\ last.status # "ok"
            /\ membersdb = last.before

\* the owning club has just been refused the approval of its pending role
C15_Witness ==
    /\ last.op = "approveMember"
    /\ last.user = Club1
    /\ last.status = "Not Authenticated to access this API"
    /\ \E k \in 1..Len(After) : ~After[k].approved /\ ~After[k].deleted
    /\ membersdb = last.before

(***************************************************************************)
(* C16. Auto-approve policy: a role new in createMember, or matching no     *)
(* stored role in editMember, is stored approved with approval_time = now   *)
(* exactly when the caller is cc or the Club Directory reports the target   *)
(* club in a review-exempt category, else with approved = false and no      *)
(* approval_time; in both cases with no rejection_time.                     *)
(***************************************************************************)
\* the category the Club Directory reports for a club
club_category(cid) == IF cid = "c1" THEN "body" ELSE "technical"

ReviewExempt == {"body", "admin"}

auto_approve_policy(user, cid) ==
    user.role = "cc" \/ club_category(cid) \in ReviewExempt

C16_AutoApprovePolicy ==
    (Succeeded("createMember") \/ Succeeded("editMember")) =>
        \A j \in 1..Len(After) :
            (~\E k \in 1..Len(Before) : SameInterval(Before[k], After[j])) =>
                /\ After[j].approved = auto_approve_policy(last.user, last.cid)
                /\ After[j].approval_time =
                        IF auto_approve_policy(last.user, last.cid)
                        THEN time_str(last.time) ELSE None
                /\ After[j].rejection_time = None

(***************************************************************************)
(* C17. deleteMember without a role id removes the Membership; with a role  *)
(* id it keeps the Membership, sets deleted = true on the role with that    *)
(* id, and leaves name, interval, approved, rejected, deleted and both      *)
(* timestamps of every other role as they were.                             *)
(***************************************************************************)
SameButRid(a, b) == [a EXCEPT !.rid = None] = [b EXCEPT !.rid = None]

C17_DeleteFrame ==
    Succeeded("deleteMember") =>
        IF last.rid = None
        THEN /\ find_one(membersdb, last.cid, last.uid) = 0
             /\ Len(membersdb) = Len(last.before) - 1
        ELSE /\ find_one(membersdb, last.cid, last.uid) # 0
             /\ Len(membersdb) = Len(last.before)
             /\ Len(After) = Len(Before)
             /\ \A k \in 1..Len(Before) :
                    IF Before[k].rid = last.rid
                    THEN /\ After[k].deleted
                         /\ SameButRid(After[k], [Before[k] EXCEPT !.deleted = TRUE])
                    ELSE SameButRid(After[k], Before[k])

\* one of two stored roles has just been marked deleted
C17_Witness ==
    /\ Succeeded("deleteMember")
    /\ last.rid # None
    /\ Len(Before) = 2
    /\ \E k, m \in 1..Len(Before) :
        /\ Before[k].rid = last.rid
        /\ ~Before[k].deleted
        /\ After[k].deleted
        /\ m # k
        /\ ~After[m].deleted

(***************************************************************************)
(* C18. approveMember by cc without a role id approves exactly the          *)
(* non-deleted roles: each gets approved = true, approval_time = now,       *)
(* rejected = false and no rejection_time, and each role with deleted =     *)
(* true keeps those four fields; with a role id it changes them on the      *)
(* role with that id and on no other.                                       *)
(***************************************************************************)
SameStatus(a, b) ==
    /\ a.approved = b.approved
    /\ a.approval_time = b.approval_time
    /\ a.rejected = b.rejected
    /\ a.rejection_time = b.rejection_time

IsApprovedAt(a, t) ==
    /\ a.approved
    /\ a.approval_time = time_str(t)
    /\ ~a.rejected
    /\ a.rejection_time = None

C18_ApproveFrame ==
    Succeeded("approveMember") =>
        /\ Len(After) = Len(Before)
        /\ \A k \in 1..Len(Before) :
            IF last.rid = None
            THEN IF Before[k].deleted THEN SameStatus(After[k], Before[k])
                 ELSE IsApprovedAt(After[k], last.time)
            ELSE IF Before[k].rid = last.rid THEN IsApprovedAt(After[k], last.time)
                 ELSE SameStatus(After[k], Before[k])

(***************************************************************************)
(* C19. deleteMember, approveMember and rejectMember on a (cid, uid) with   *)
(* no Membership raise and leave the members collection as it was; the      *)
(* error is "No such Record" when the caller passed the authorization       *)
(* check.                                                                   *)
(***************************************************************************)
C19_NotFound ==
    ( /\ last.op \in {"deleteMember", "approveMember", "rejectMember"}
      /\ find_one(last.before, last.cid, last.uid) = 0 ) =>
        /\ last.status # "ok"
        /\ membersdb = last.before
        /\ ( IF last.op = "deleteMember" THEN Insider(last.user, last.cid)
             ELSE last.user.role = "cc" ) => last.status = "No such Record"

\* after a create and another call have emptied the collection again, a
\* full deleteMember by cc has just raised "No such Record"
C19_Witness ==
    /\ last.op = "deleteMember"
    /\ last.user = CC
    /\ last.uid \in KnownUids
    /\ last.status = "No such Record"
    /\ calls = 3
    /\ membersdb = <<>>

(***************************************************************************)
(* C20 as stated. Roles are never physically removed while their            *)
(* Membership exists:                                                       *)
(* after editMember, deleteMember with a role id, approveMember or          *)
(* rejectMember every role that was stored in the Membership is still in    *)
(* its role list.                                                           *)
(***************************************************************************)
C20_RolesNeverRemoved_AsStated ==
    ( /\ last.op \in {"editMember", "deleteMember", "approveMember", "rejectMember"}
      /\ last.status = "ok"
      /\ ~(last.op = "deleteMember" /\ last.rid = None) ) =>
        \A k \in 1..Len(Before) :
            \E j \in 1..Len(After) : SameInterval(Before[k], After[j])

(***************************************************************************)
(* C20 amended. deleteMember with a role id, approveMember and rejectMember *)
(* remove no role: every stored role of the Membership is still in its      *)
(* role list, at its place and with its name and interval. editMember       *)
(* stores the submitted roles as the role list, one stored role for each    *)
(* submitted one, so that a stored role that is not resubmitted is gone.    *)
(***************************************************************************)
C20_RolesNeverRemoved ==
    /\ ( /\ last.op \in {"deleteMember", "approveMember", "rejectMember"}
         /\ last.status = "ok"
         /\ ~(last.op = "deleteMember" /\ last.rid = None) ) =>
            /\ Len(After) = Len(Before)
            /\ \A k \in 1..Len(Before) : SameInterval(Before[k], After[k])
    /\ Succeeded("editMember") =>
            /\ Len(After) = Len(last.roles)
            /\ \A j \in 1..Len(After) : After[j].name = last.roles[j].name

\* cc has just rejected one of two stored roles, and both are still stored
C20_Witness ==
    /\ Succeeded("rejectMember")
    /\ last.rid # None
    /\ Len(Before) = 2
    /\ Len(After) = 2
    /\ \E k, m \in 1..2 :
        /\ Before[k].rid = last.rid
        /\ After[k].rejected
        /\ m # k
        /\ ~After[m].rejected

(***************************************************************************)
(* C21. Failed writes never partially apply: when createMember or           *)
(* editMember raises, the members collection holds what it held before the  *)
(* call; with an empty role list they never succeed.                        *)
(***************************************************************************)
C21_FailedWritesApplyNothing ==
    last.op \in {"createMember", "editMember"} =>
        /\ last.status # "ok" => membersdb = last.before
        /\ last.status = "ok" => last.roles # <<>>

\* editMember has just refused an empty role list for a stored Membership
C21_Witness ==
    /\ last.op = "editMember"
    /\ last.status = "Roles cannot be empty"
    /\ find_one(membersdb, last.cid, last.uid) # 0
    /\ membersdb = last.before

(***************************************************************************)
(* C22. In createMember and editMember a submitted role whose start is not  *)
(* after the current year and whose end is before its start makes the       *)
(* write fail; such a role is never stored with its end cleared.            *)
(***************************************************************************)
C22_StartAfterEndRefused ==
    (Succeeded("createMember") \/ Succeeded("editMember")) =>
        \A j \in 1..Len(last.roles) :
            ~( /\ last.roles[j].start_year <= CurrentYear
               /\ last.roles[j].end_year # None
               /\ last.roles[j].end_year[1] < last.roles[j].start_year )

(***************************************************************************)
(* C26. Timestamp consistency: every stored role has an approval_time       *)
(* exactly when it is approved and a rejection_time exactly when it is      *)
(* rejected.                                                                *)
(***************************************************************************)
C26_TimestampConsistency ==
    \A i \in 1..Len(membersdb) : \A k \in 1..Len(membersdb[i].roles) :
        /\ membersdb[i].roles[k].approval_time # None
                <=> membersdb[i].roles[k].approved
        /\ membersdb[i].roles[k].rejection_time # None
                <=> membersdb[i].roles[k].rejected

(***************************************************************************)
(* C27. Interval invariant: every stored role has no end or an end that is  *)
(* not before its start, the roles whose start was clamped included.        *)
(***************************************************************************)
C27_IntervalInvariant ==
    \A i \in 1..Len(membersdb) : \A k \in 1..Len(membersdb[i].roles) :
        \/ membersdb[i].roles[k].end_year = None
        \/ membersdb[i].roles[k].end_year[1] >= membersdb[i].roles[k].start_year

\* a role sent with a start next year and an end after it has just been
\* stored, next to a role that keeps its end
C27_Witness ==
    /\ Succeeded("createMember")
    /\ Len(After) = 2
    /\ last.roles[1].start_year > CurrentYear
    /\ last.roles[1].end_year = Some(CurrentYear + 1)
    /\ After[1].start_year = CurrentYear
    /\ After[2].end_year = Some(CurrentYear + 1)

(***************************************************************************)
(* C28. Timestamp carry-over in editMember: a submitted role matching a     *)
(* stored role on (name, start, end) is stored with that role's             *)
(* approval_time and rejection_time.                                        *)
(***************************************************************************)
C28_TimestampCarryOver ==
    Succeeded("editMember") =>
        \A j \in 1..Len(After) : \A k \in 1..Len(Before) :
            ( /\ SameInterval(Before[k], After[j])
              /\ Occurrence(Before, k, Before[k]) = Occurrence(After, j, After[j]) ) =>
                /\ After[j].approval_time = Before[k].approval_time
                /\ After[j].rejection_time = Before[k].rejection_time

(***************************************************************************)
(* C29. One-to-one matching in editMember: of k submitted roles with one    *)
(* (name, start, end) against m < k stored ones, the first m are stored     *)
(* with the approved, rejected and deleted flags of the stored ones, in     *)
(* their order, and the other k - m as new roles: approved only under the   *)
(* auto-approve policy and then stamped with this call's time, not          *)
(* rejected, not deleted.                                                   *)
(***************************************************************************)
C29_OneToOneMatching ==
    Succeeded("editMember") =>
        \A j \in 1..Len(After) :
            LET n == Occurrence(After, j, After[j])
                m == Occurrence(Before, Len(Before), After[j])
            IN IF n <= m
               THEN \E k \in 1..Len(Before) :
                        /\ SameInterval(Before[k], After[j])
                        /\ Occurrence(Before, k, Before[k]) = n
                        /\ After[j].approved = Before[k].approved
                        /\ After[j].rejected = Before[k].rejected
                        /\ After[j].deleted = Before[k].deleted
               ELSE /\ After[j].approved => auto_approve_policy(last.user, last.cid)
                    /\ After[j].approval_time =
                            IF After[j].approved THEN time_str(last.time) ELSE None
                    /\ ~After[j].rejected
                    /\ After[j].rejection_time = None
                    /\ ~After[j].deleted

\* a club has just sent twice a role stored once, rejected: the first copy
\* is stored rejected, the second as a new one
C29_Witness ==
    /\ Succeeded("editMember")
    /\ last.user.role = "club"
    /\ Len(Before) = 1
    /\ Before[1].rejected
    /\ Len(After) = 2
    /\ SameInterval(After[1], Before[1])
    /\ SameInterval(After[2], Before[1])
    /\ After[1].rejected
    /\ ~After[2].rejected

(***************************************************************************)
(* C30. verifyCertificate reports by a fixed priority: an unknown number    *)
(* gives "not found"; else a rejected certificate gives "rejected" whatever *)
(* the key; else a key mismatch gives "wrong key" whatever the pending      *)
(* state; else a pending certificate gives "approval pending"; an approved  *)
(* certificate with its key is returned.                                    *)
(***************************************************************************)
\* the stored certificates that carry the number of the last call
Verified ==
    {i \in 1..Len(certificatesdb) :
        certificatesdb[i].certificate_number = last.number}

C30_VerifyPriority ==
    last.op = "verifyCertificate" =>
        /\ Verified = {} <=> last.status = "Certificate not found"
        /\ \A i \in Verified :
            /\ certificatesdb[i].state = rejected
                    => last.status = "Certificate has been rejected"
            /\ (certificatesdb[i].state # rejected /\ certificatesdb[i].key # last.key)
                    => last.status = "Wrong key provided"
            /\ (certificatesdb[i].state \in {pending_cc, pending_slo}
                    /\ certificatesdb[i].key = last.key)
                    => last.status = "Certificate approval is pending"
            /\ (certificatesdb[i].state = approved /\ certificatesdb[i].key = last.key)
                    => last.status = "ok"

\* a rejected certificate has just been verified with a key that is not its own
C30_Witness ==
    /\ last.op = "verifyCertificate"
    /\ last.status = "Certificate has been rejected"
    /\ \E i \in Verified :
        certificatesdb[i].state = rejected /\ certificatesdb[i].key # last.key

(***************************************************************************)
(* C23. Two requestCertificate calls running concurrently in one academic   *)
(* year that read the same count of existing certificates both insert a     *)
(* certificate, with the same certificate_number: two stored certificates   *)
(* carry one number.                                                        *)
(***************************************************************************)
C23_SameCountSameNumber ==
    \A p, q \in 1..Len(procs) :
        ( /\ p # q
          /\ procs[p].op = "requestCertificate" /\ procs[q].op = "requestCertificate"
          /\ procs[p].pc = "done" /\ procs[q].pc = "done"
          /\ procs[p].seen = procs[q].seen ) =>
            /\ procs[p].at # procs[q].at
            /\ certificatesdb[procs[p].at].certificate_number
                    = certificatesdb[procs[q].at].certificate_number

\* both requests have inserted, and two stored certificates carry one number
C23_Witness ==
    /\ Len(procs) = 2
    /\ procs[1].pc = "done" /\ procs[2].pc = "done"
    /\ procs[1].seen = procs[2].seen
    /\ \E i, j \in 1..Len(certificatesdb) :
        /\ i # j
        /\ certificatesdb[i].certificate_number = certificatesdb[j].certificate_number

(***************************************************************************)
(* C24. Last-writer-wins on one Membership: when two editMember requests    *)
(* for one (cid, uid) both read the stored roles before either writes, the  *)
(* stored roles after both have completed are the merge of the request that *)
(* wrote last (no request has written after it), computed against the roles *)
(* it read, and both requests return without an error.                      *)
(***************************************************************************)
\* a role list with the role ids left out
WithoutRid(roles) == [k \in 1..Len(roles) |-> [roles[k] EXCEPT !.rid = None]]

\* what request p alone would store, from the roles it read
MergeOf(p) ==
    editMember_roles([i \in 1..Len(procs[p].roles) |-> Roles(procs[p].roles[i])],
                     procs[p].seen, procs[p].user, procs[p].time)

C24_LastWriterWins ==
    \A p, q \in 1..Len(procs) :
        ( /\ procs[p].op = "editMember" /\ procs[q].op = "editMember"
          /\ procs[p].cid = procs[q].cid /\ procs[p].uid = procs[q].uid
          /\ procs[p].pc = "done" /\ procs[q].pc = "done"
          /\ procs[p].readAt = 0 /\ procs[q].readAt = 0
          /\ procs[p].wrote < procs[q].wrote
          /\ procs[q].wrote = Writes ) =>
            /\ WithoutRid(StoredRoles(membersdb, procs[q].cid, procs[q].uid))
                    = WithoutRid(MergeOf(q))
            /\ procs[p].status = "ok" /\ procs[q].status = "ok"

\* both requests read before either wrote, both have completed, and what
\* the first one wrote is not what is stored
C24_Witness ==
    /\ Len(procs) = 2
    /\ procs[1].pc = "done" /\ procs[2].pc = "done"
    /\ procs[1].readAt = 0 /\ procs[2].readAt = 0
    /\ procs[1].wrote < procs[2].wrote
    /\ WithoutRid(MergeOf(1)) # WithoutRid(MergeOf(2))
    /\ WithoutRid(StoredRoles(membersdb, "c1", "u1")) = WithoutRid(MergeOf(2))

(***************************************************************************)
(* C25. Certificate snapshot independence: once requestCertificate has      *)
(* stored a certificate, no createMember, editMember, deleteMember,         *)
(* approveMember, rejectMember or updateMembersCid call changes its         *)
(* certificate_data, and approveCertificate and rejectCertificate change    *)
(* only its state and approval stamps: certificate_data,                    *)
(* certificate_number, user_id and key stay as they were stored.            *)
(***************************************************************************)
SnapshotKept ==
    /\ Len(certificatesdb') >= Len(certificatesdb)
    /\ \A i \in 1..Len(certificatesdb) :
        /\ certificatesdb'[i].certificate_data = certificatesdb[i].certificate_data
        /\ certificatesdb'[i].certificate_number = certificatesdb[i].certificate_number
        /\ certificatesdb'[i].user_id = certificatesdb[i].user_id
        /\ certificatesdb'[i].key = certificatesdb[i].key

C25_SnapshotIndependence == [][SnapshotKept]_vars

\* the memberships a certificate of the member would be given now
LiveMemberships ==
    memberships_of(memberRolesHelper(membersdb, Student.uid, Student))

\* a certificate has been approved by cc after a member call changed the
\* memberships it was made from
C25_Witness ==
    /\ Len(certificatesdb) >= 1
    /\ certificatesdb[1].state = pending_slo
    /\ certificatesdb[1].certificate_data.memberships # LiveMemberships
    /\ certificatesdb[1].certificate_data.memberships # <<>>

(***************************************************************************)
(* C31 as stated. currentMembers returns only non-deleted roles with no     *)
(* end, and of each Membership what members returns to the same caller less *)
(* the roles with an end: to cc and the owning club the ongoing pending     *)
(* roles as well.                                                           *)
(***************************************************************************)
\* the stored Membership i is among those the last currentMembers asked for
Listed(i) == membersdb[i].cid = last.cid \/ last.cid = "clubs"

Ongoing(roles) == SelectSeq(roles, LAMBDA r : r.end_year = None)

C31_CurrentView_AsStated ==
    Succeeded("currentMembers") =>
        \A i \in 1..Len(membersdb) :
            Listed(i) =>
                ResultRoles(membersdb[i].cid, membersdb[i].uid)
                    = Ongoing(IF Insider(last.user, membersdb[i].cid)
                              THEN NonDeleted(membersdb[i].roles)
                              ELSE ApprovedNonDeleted(membersdb[i].roles))

(***************************************************************************)
(* C31 amended. currentMembers returns to every caller, of each Membership  *)
(* it lists, exactly the roles that are approved, not deleted and have no   *)
(* end: what members returns to a public caller less the roles with an end. *)
(***************************************************************************)
C31_CurrentView ==
    Succeeded("currentMembers") =>
        /\ \A d \in 1..Len(last.result) : \A k \in 1..Len(last.result[d].roles) :
            /\ ~last.result[d].roles[k].deleted
            /\ last.result[d].roles[k].end_year = None
        /\ \A i \in 1..Len(membersdb) :
            Listed(i) =>
                ResultRoles(membersdb[i].cid, membersdb[i].uid)
                    = Ongoing(ApprovedNonDeleted(membersdb[i].roles))

\* cc has just listed the current members of a Membership with an ongoing
\* pending role and got its one approved ongoing role
C31_Witness ==
    /\ Succeeded("currentMembers")
    /\ last.user = CC
    /\ \E i \in 1..Len(membersdb) :
        /\ Listed(i)
        /\ \E k \in 1..Len(membersdb[i].roles) :
            /\ ~membersdb[i].roles[k].approved
            /\ ~membersdb[i].roles[k].deleted
            /\ membersdb[i].roles[k].end_year = None
        /\ Len(ResultRoles(membersdb[i].cid, membersdb[i].uid)) = 1

(***************************************************************************)
(* C32. pendingMembers answers cc callers only, and returns of every        *)
(* Membership exactly the roles with approved = false, rejected = false     *)
(* and deleted = false; a Membership with no such role is not listed.       *)
(***************************************************************************)
PendingRoles(roles) ==
    SelectSeq(roles, LAMBDA r : ~r.approved /\ ~r.rejected /\ ~r.deleted)

C32_PendingView ==
    last.op = "pendingMembers" =>
        /\ last.status = "ok" <=> last.user.role = "cc"
        /\ last.status # "ok" =>
            last.status = "Not Authenticated" /\ last.result = <<>>
        /\ last.status = "ok" =>
            /\ \A i \in 1..Len(membersdb) :
                ResultRoles(membersdb[i].cid, membersdb[i].uid)
                    = PendingRoles(membersdb[i].roles)
            /\ \A d \in 1..Len(last.result) :
                /\ last.result[d].roles # <<>>
                /\ \E i \in 1..Len(membersdb) :
                    /\ membersdb[i].cid = last.result[d].cid
                    /\ membersdb[i].uid = last.result[d].uid

\* cc has just listed the pending members of two Memberships: one is listed
\* with its pending role, without its other role; the other is not listed
C32_Witness ==
    /\ Succeeded("pendingMembers")
    /\ Len(membersdb) = 2
    /\ Len(last.result) = 1
    /\ \E i \in 1..Len(membersdb) :
        /\ Len(membersdb[i].roles) = 2
        /\ Len(ResultRoles(membersdb[i].cid, membersdb[i].uid)) = 1

(***************************************************************************)
(* C33. With requestCertificate calls processed one at a time within one    *)
(* academic year, the n-th certificate created has sequence number n, so    *)
(* the certificate numbers in the store are pairwise distinct.              *)
(***************************************************************************)
C33_SequentialNumbers ==
    /\ \A n \in 1..Len(certificatesdb) :
        certificatesdb[n].certificate_number
            = <<"SLC", <<CurrentYear % 100, (CurrentYear + 1) % 100>>, n>>
    /\ \A i, j \in 1..Len(certificatesdb) :
        i # j => certificatesdb[i].certificate_number
                    # certificatesdb[j].certificate_number

\* a second certificate has just been requested after the first one was
\* decided on
C33_Witness ==
    /\ last.op = "requestCertificate" /\ last.status = "ok"
    /\ Len(certificatesdb) = 2
    /\ certificatesdb[1].state # pending_cc
    /\ certificatesdb[2].certificate_number[3] = 2

(***************************************************************************)
(* C34. User-id normalization round trip: a Membership created with the     *)
(* user id U is found by member, approveMember, rejectMember and            *)
(* deleteMember called with U in any letter case: the call does not fail    *)
(* with not-found while the Membership exists.                              *)
(***************************************************************************)
C34_UidRoundTrip ==
    ( /\ last.op \in {"member", "approveMember", "rejectMember", "deleteMember"}
      /\ find_one(last.before, last.cid, lower(last.uid)) # 0 ) =>
        last.status # "No such Record"

(***************************************************************************)
(* C35. No privilege escalation through writes by clubs: a createMember,    *)
(* editMember or deleteMember call by a club that is in no review-exempt    *)
(* category does not increase the number of approved roles of the           *)
(* Membership, and every role approved after it has the (name, start, end)  *)
(* of a role that was approved before it; so this holds for every sequence  *)
(* of such calls.                                                           *)
(***************************************************************************)
Approved(roles) == SelectSeq(roles, LAMBDA r : r.approved)

C35_NoEscalationByClubs ==
    ( /\ last.op \in {"createMember", "editMember", "deleteMember"}
      /\ last.user.role = "club"
      /\ club_category(last.cid) \notin ReviewExempt ) =>
        /\ Len(Approved(After)) <= Len(Approved(Before))
        /\ \A j \in 1..Len(After) :
            After[j].approved =>
                \E k \in 1..Len(Before) :
                    Before[k].approved /\ SameInterval(Before[k], After[j])

\* a club in no review-exempt category has just edited its Membership: the
\* approved role is stored approved, the role it adds is not
C35_Witness ==
    /\ Succeeded("editMember")
    /\ last.user = Club2
    /\ club_category(last.cid) \notin ReviewExempt
    /\ Len(After) = 2
    /\ Len(Approved(Before)) = 1
    /\ Len(Approved(After)) = 1

(***************************************************************************)
(* C36. The memberships in a certificate's certificate_data are roles of    *)
(* the requesting user that were approved and not deleted when it was       *)
(* requested, whatever the requester's role, cc included; and               *)
(* requestCertificate fails and inserts nothing when the requester has no   *)
(* such role.                                                               *)
(***************************************************************************)
\* the approved, non-deleted roles stored for the uid, as memberships
ApprovedMemberships(uid) ==
    UNION {{[startYear |-> membersdb[i].roles[k].start_year,
             endYear |-> membersdb[i].roles[k].end_year,
             name |-> membersdb[i].roles[k].name,
             cid |-> membersdb[i].cid] :
                k \in {r \in 1..Len(membersdb[i].roles) :
                        /\ membersdb[i].roles[r].approved
                        /\ ~membersdb[i].roles[r].deleted}} :
           i \in {d \in 1..Len(membersdb) : membersdb[d].uid = uid}}

C36_SnapshotApprovedOnly ==
    (last.op = "requestCertificate" /\ last.user # NoUser) =>
        IF last.status = "ok"
        THEN LET data == certificatesdb[Len(certificatesdb)].certificate_data
             IN /\ data.memberships # <<>>
                /\ \A m \in 1..Len(data.memberships) :
                    data.memberships[m] \in ApprovedMemberships(last.user.uid)
        ELSE certificatesdb = last.certs

(***************************************************************************)
(* C37. Every pending certificate stays processable: an approveCertificate  *)
(* or rejectCertificate call by cc (by slo) with the number of a            *)
(* certificate in pending_cc (pending_slo) changes the state of that        *)
(* certificate, also when two certificates share the number.                *)
(***************************************************************************)
C37_PendingProcessable ==
    last.op \in {"approveCertificate", "rejectCertificate"} =>
        \A i \in 1..Len(last.certs) :
            ( /\ last.certs[i].certificate_number = last.number
              /\ \/ last.certs[i].state = pending_cc /\ last.user.role = "cc"
                 \/ last.certs[i].state = pending_slo /\ last.user.role = "slo" ) =>
                certificatesdb[i].state # last.certs[i].state

(***************************************************************************)
(* C38. No request can observe a stored role without an id: at every point  *)
(* of concurrently executing requests, between the role-list write of       *)
(* createMember or editMember and the assignment of the ids that follows it *)
(* included, every stored role has a role id.                               *)
(***************************************************************************)
C38_NoRoleWithoutId ==
    \A p \in 1..Len(procs) :
        procs[p].pc \in {"ids", "done"} =>
            \A k \in 1..Len(StoredRoles(membersdb, procs[p].cid, procs[p].uid)) :
                StoredRoles(membersdb, procs[p].cid, procs[p].uid)[k].rid # None

====
